---------------------------- MODULE Spec2Model ----------------------------
(***************************************************************************)
(* A model of srtgears (github.com/icza/srtgears): the Subtitle / SubsPack *)
(* model types, their transformations, and the SubRip reader and writer.   *)
(*                                                                         *)
(* Strings are Go strings, one character per byte; Char(s, i) is the byte  *)
(* s[i-1].                                                                 *)
(*                                                                         *)
(* A time.Duration is an integer count of ticks.  Go's tick is the         *)
(* nanosecond (time.Millisecond = 10^6 = 2^6 * 5^6); the model's tick is   *)
(* 1/64 ms (Millisecond == 64), which keeps the hours of a timestamp       *)
(* within the integers of the checker.  The timestamps of a SubRip file    *)
(* are whole milliseconds, and the factors of the model are 0, 1/2 and 2,  *)
(* so the halvings of Scale and Lengthen stay exact in both units for as   *)
(* many calls as a behaviour of the model makes: every duration of the     *)
(* model is the duration of the program divided by 15625 ns.               *)
(*                                                                         *)
(* A float64 factor is a pair <<num, den>> with den a power of two, so     *)
(* that the float64 product is exact and the conversion back to Duration   *)
(* truncates toward zero.                                                  *)
(*                                                                         *)
(* Where a value is needed more than once, it is passed as the parameter   *)
(* of a helper operator (the local variable of the Go code).               *)
(***************************************************************************)
EXTENDS Integers, Sequences, FiniteSets, TLC

(***************************************************************************)
(* Bounds of the model.                                                    *)
(***************************************************************************)
\* transformations applied after loading, per behaviour
MaxOps == 2
\* records per SubRip input file
MaxRecs == 3
\* arguments given to the Executor
MaxArgs == 3
\* the sink fails at one of its first MaxFail writes, or never
MaxFail == 60

(***************************************************************************)
(* Go string and integer primitives.                                       *)
(***************************************************************************)
\* the byte s[i-1], or "" when the index is outside of s
Char(s, i) == IF 1 <= i /\ i <= Len(s) THEN SubSeq(s, i, i) ELSE ""

\* s[i-1:] in Go
From(s, i) == SubSeq(s, i, Len(s))

\* strings.HasPrefix(s[i-1:], p)
HasAt(s, i, p) == i + Len(p) - 1 <= Len(s) /\ SubSeq(s, i, i + Len(p) - 1) = p

HasPrefix(s, p) == HasAt(s, 1, p)

Digit == {"0", "1", "2", "3", "4", "5", "6", "7", "8", "9"}

\* the class \s of Go's regexp package
Space == {" ", "\t", "\n", "\r", "\f"}

DigitVal(c) ==
    CASE c = "0" -> 0 [] c = "1" -> 1 [] c = "2" -> 2 [] c = "3" -> 3
      [] c = "4" -> 4 [] c = "5" -> 5 [] c = "6" -> 6 [] c = "7" -> 7
      [] c = "8" -> 8 [] c = "9" -> 9

\* Go's integer division and remainder truncate toward zero
Quot(a, b) == IF a >= 0 THEN a \div b ELSE -((-a) \div b)

Rem(a, b) == a - b * Quot(a, b)

\* time.Duration(float64(t) * factor), factor = f[1] / f[2]
MulFactor(t, f) == Quot(t * f[1], f[2])

\* index of the first byte c of s at or after i, 0 when there is none
RECURSIVE IndexFrom(_, _, _)
IndexFrom(s, c, i) ==
    IF i > Len(s) THEN 0
    ELSE IF Char(s, i) = c THEN i
    ELSE IndexFrom(s, c, i + 1)

\* bytes.IndexByte(s[lo-1:hi], c): the index of the first byte c of s in
\* lo..hi, 0 when there is none.  The interval is searched by halves, the
\* first half first.
RECURSIVE IndexIn(_, _, _, _)
IndexInRest(first, s, c, mid, hi) ==
    IF first > 0 THEN first ELSE IndexIn(s, c, mid + 1, hi)

IndexIn(s, c, lo, hi) ==
    IF lo > hi THEN 0
    ELSE IF lo = hi THEN (IF Char(s, lo) = c THEN lo ELSE 0)
    ELSE IndexInRest(IndexIn(s, c, lo, (lo + hi) \div 2), s, c, (lo + hi) \div 2, hi)

Min(a, b) == IF a <= b THEN a ELSE b

\* first index at or after i that holds no byte of class \s
RECURSIVE SkipSpace(_, _)
SkipSpace(s, i) ==
    IF i <= Len(s) /\ Char(s, i) \in Space THEN SkipSpace(s, i + 1) ELSE i

\* first index at or after i that holds no '-'
RECURSIVE SkipDash(_, _)
SkipDash(s, i) ==
    IF i <= Len(s) /\ Char(s, i) = "-" THEN SkipDash(s, i + 1) ELSE i

\* Pieces of a regular expression matched from index i on; i = 0 stands for
\* "no match so far", and the result is the index after the piece, or 0.
\* the literal p
Lit(s, i, p) == IF i > 0 /\ HasAt(s, i, p) THEN i + Len(p) ELSE 0

\* \s*
Sp(s, i) == IF i > 0 THEN SkipSpace(s, i) ELSE 0

\* \s+
Sp1(s, i) == IF i > 0 /\ Char(s, i) \in Space THEN SkipSpace(s, i) ELSE 0

(***************************************************************************)
(* Subtitle positions (type Pos) and the durations of package time.        *)
(***************************************************************************)
PosNotSpecified == 0
BottomLeft == 1
Bottom == 2
BottomRight == 3
Left == 4
Center == 5
Right == 6
TopLeft == 7
Top == 8
TopRight == 9

Millisecond == 64
Second == 1000 * Millisecond
Minute == 60 * Second
Hour == 60 * Minute

\* the zero Subtitle, &Subtitle{}
NewSubtitle ==
    [TimeIn |-> 0, TimeOut |-> 0, Lines |-> <<>>, Pos |-> PosNotSpecified,
     Color |-> ""]

(***************************************************************************)
(* Subtitle methods (subtitle.go).                                         *)
(***************************************************************************)
DisplayDuration(s) == s.TimeOut - s.TimeIn

\* htmlPattern.ReplaceAllString(line, ""), htmlPattern = `<[^>]+>`, from
\* index i on: a match is '<', at least one byte other than '>', and the
\* next '>'.
RECURSIVE htmlPatternRemove(_, _)
htmlPatternRemove(s, i) ==
    IF i > Len(s) THEN ""
    ELSE IF Char(s, i) = "<" /\ IndexFrom(s, ">", i + 1) > i + 1
    THEN htmlPatternRemove(s, IndexFrom(s, ">", i + 1) + 1)
    ELSE Char(s, i) \o htmlPatternRemove(s, i + 1)

\* controlPattern.ReplaceAllString(line, ""), controlPattern = `^{\\[^}]*}`
controlPatternRemove(s) ==
    IF HasPrefix(s, "{\\") /\ IndexFrom(s, "}", 3) > 0
    THEN From(s, IndexFrom(s, "}", 3) + 1)
    ELSE s

\* The test of Subtitle.RemoveHI on a line whose HTML is stripped: "fault"
\* is the run-time panic of line[0] on the empty string.
HIKind(line) ==
    IF Len(line) = 0 THEN "fault"
    ELSE IF \/ Char(line, 1) = "[" /\ Char(line, Len(line)) = "]"
            \/ Char(line, 1) = "(" /\ Char(line, Len(line)) = ")"
    THEN "hi" ELSE "keep"

\* s.Lines without its line i
CutLine(s, i) ==
    [s EXCEPT !.Lines = SubSeq(@, 1, i - 1) \o SubSeq(@, i + 1, Len(@))]

\* Subtitle.RemoveHI: lines are visited from the last to the first.  The
\* result holds the subtitle, the returned flag and whether the call
\* panicked (the lines already removed stay removed).
RECURSIVE SubtitleRemoveHIFrom(_, _, _)
SubtitleRemoveHIStep(s, i, remove, kind) ==
    CASE kind = "fault" -> [s |-> s, remove |-> remove, fault |-> TRUE]
      [] kind = "hi" -> SubtitleRemoveHIFrom(CutLine(s, i), i - 1, TRUE)
      [] kind = "keep" -> SubtitleRemoveHIFrom(s, i - 1, remove)

SubtitleRemoveHIFrom(s, i, remove) ==
    IF i < 1 THEN [s |-> s, remove |-> remove, fault |-> FALSE]
    ELSE SubtitleRemoveHIStep(s, i, remove,
                              HIKind(htmlPatternRemove(s.Lines[i], 1)))

\* A faulty variant of Subtitle.RemoveHI: the lines are visited from the
\* first to the last, so that the line after a removed one is skipped.
RECURSIVE SubtitleRemoveHIUp(_, _, _)
SubtitleRemoveHIUpStep(s, i, remove, kind) ==
    CASE kind = "fault" -> [s |-> s, remove |-> remove, fault |-> TRUE]
      [] kind = "hi" -> SubtitleRemoveHIUp(CutLine(s, i), i + 1, TRUE)
      [] kind = "keep" -> SubtitleRemoveHIUp(s, i + 1, remove)

SubtitleRemoveHIUp(s, i, remove) ==
    IF i > Len(s.Lines) THEN [s |-> s, remove |-> remove, fault |-> FALSE]
    ELSE SubtitleRemoveHIUpStep(s, i, remove,
                                HIKind(htmlPatternRemove(s.Lines[i], 1)))

SubtitleRemoveHIForward(s) == SubtitleRemoveHIUp(s, 1, FALSE)

SubtitleRemoveHI(s) == SubtitleRemoveHIFrom(s, Len(s.Lines), FALSE)

SubtitleShift(s, delta) ==
    [s EXCEPT !.TimeIn = @ + delta, !.TimeOut = @ + delta]

\* s.TimeIn = in; s.TimeOut = s.TimeIn + dur
SetTimes(s, in, dur) == [s EXCEPT !.TimeIn = in, !.TimeOut = in + dur]

\* A faulty variant of Subtitle.Scale: both timestamps are scaled.
SubtitleScaleBoth(s, factor) ==
    [s EXCEPT !.TimeIn = MulFactor(@, factor), !.TimeOut = MulFactor(@, factor)]

SubtitleScale(s, factor) ==
    SetTimes(s, MulFactor(s.TimeIn, factor), DisplayDuration(s))

\* A faulty variant of the test below: a negative TimeIn is kept.
KeepNegative(in) == in

\* if s.TimeIn < 0 { s.TimeIn = 0 }
NotNegative(in) == IF in < 0 THEN 0 ELSE in

\* A faulty variant of LengthenTo: TimeOut is center + newDur/2 also when
\* TimeIn was made not negative.
LengthenToCentered(s, newDur) ==
    SetTimes(s, NotNegative(Quot(s.TimeIn + s.TimeOut, 2) - Quot(newDur, 2)),
             Quot(s.TimeIn + s.TimeOut, 2) + Quot(newDur, 2)
                 - NotNegative(Quot(s.TimeIn + s.TimeOut, 2) - Quot(newDur, 2)))

\* center - newDur/2, made not negative, and the new duration
LengthenTo(s, newDur) ==
    SetTimes(s, NotNegative(Quot(s.TimeIn + s.TimeOut, 2) - Quot(newDur, 2)),
             newDur)

SubtitleLengthen(s, factor) ==
    LengthenTo(s, MulFactor(DisplayDuration(s), factor))

\* A faulty variant of Subtitle.RemoveHTML: the position is dropped too.
SubtitleRemoveHTMLPos(s) ==
    [s EXCEPT !.Lines = [i \in 1..Len(@) |-> htmlPatternRemove(@[i], 1)],
              !.Color = "", !.Pos = PosNotSpecified]

SubtitleRemoveHTML(s) ==
    [s EXCEPT !.Lines = [i \in 1..Len(@) |-> htmlPatternRemove(@[i], 1)],
              !.Color = ""]

SubtitleRemoveControl(s) ==
    [s EXCEPT !.Lines = [i \in 1..Len(@) |-> controlPatternRemove(@[i])],
              !.Pos = PosNotSpecified]

(***************************************************************************)
(* SubsPack methods (subspack.go).  A pack is [nil, Subs]: Subs is the     *)
(* slice of *Subtitle, a sequence of addresses into the heap h of Subtitle *)
(* values, so that two packs (or two slots of one pack) can share a        *)
(* subtitle.                                                               *)
(***************************************************************************)
NilPack == [nil |-> TRUE, Subs |-> <<>>]

Pack(subs) == [nil |-> FALSE, Subs |-> subs]

Less(h, subs, i, j) == h[subs[i]].TimeIn < h[subs[j]].TimeIn

Swap(subs, i, j) == [subs EXCEPT ![i] = subs[j], ![j] = subs[i]]

\* The inner loop of sort.Sort's insertion sort:
\* for j := i; j > a && Less(j, j-1); j-- { Swap(j, j-1) }
RECURSIVE InsertionInner(_, _, _)
InsertionInner(h, subs, j) ==
    IF j > 1 /\ Less(h, subs, j, j - 1)
    THEN InsertionInner(h, Swap(subs, j, j - 1), j - 1)
    ELSE subs

RECURSIVE InsertionSort(_, _, _)
InsertionSort(h, subs, i) ==
    IF i > Len(subs) THEN subs
    ELSE InsertionSort(h, InsertionInner(h, subs, i), i + 1)

\* A faulty variant of SubsPack.Sort: the slice is left as it is.
SortSkipped(h, subs) == subs

\* SubsPack.Sort: sort.Sort(SortSubtitles(sp.Subs)).  For a slice of at most
\* 12 elements sort.Sort is the insertion sort above (the packs of this
\* model are shorter).
Sort(h, subs) == InsertionSort(h, subs, 2)

\* the heap and the slice of a pack once it is sorted
Sorted(h, subs) == [h |-> h, subs |-> Sort(h, subs)]

\* for _, s := range sp.Subs { s.<method>(arg) }: the method is applied
\* once per slot, so a subtitle listed twice is changed twice.
ApplyMethod(s, method, arg) ==
    CASE method = "Shift" -> SubtitleShift(s, arg)
      [] method = "Scale" -> SubtitleScale(s, arg)
      [] method = "Lengthen" -> SubtitleLengthen(s, arg)
      [] method = "SetPos" -> [s EXCEPT !.Pos = arg]
      [] method = "SetColor" -> [s EXCEPT !.Color = arg]
      [] method = "RemoveHTML" -> SubtitleRemoveHTML(s)
      [] method = "RemoveControl" -> SubtitleRemoveControl(s)

RECURSIVE RangeSubs(_, _, _, _, _)
RangeSubs(h, subs, i, method, arg) ==
    IF i > Len(subs) THEN h
    ELSE RangeSubs([h EXCEPT ![subs[i]] = ApplyMethod(@, method, arg)],
                   subs, i + 1, method, arg)

\* The transformations below return the new heap, or the new heap and the
\* new slice(s).
Shift(h, subs, delta) == RangeSubs(h, subs, 1, "Shift", delta)

Scale(h, subs, factor) == RangeSubs(h, subs, 1, "Scale", factor)

SetPos(h, subs, pos) == RangeSubs(h, subs, 1, "SetPos", pos)

SetColor(h, subs, color) == RangeSubs(h, subs, 1, "SetColor", color)

RemoveHTML(h, subs) == RangeSubs(h, subs, 1, "RemoveHTML", 0)

RemoveControl(h, subs) == RangeSubs(h, subs, 1, "RemoveControl", 0)

Lengthen(h, subs, factor) == RangeSubs(h, subs, 1, "Lengthen", factor)

\* append(sp.Subs[:i], sp.Subs[i+1:]...)
CutSlot(subs, i) == SubSeq(subs, 1, i - 1) \o SubSeq(subs, i + 1, Len(subs))

\* SubsPack.RemoveHI: slots are visited from the last to the first; a slot
\* whose subtitle has no line left is cut out of the slice.  A panic of
\* Subtitle.RemoveHI ends the call where it stands.  r is the outcome of
\* s.RemoveHI() on the subtitle of slot i.
RECURSIVE RemoveHIFrom(_, _, _)
RemoveHIStep(h, subs, i, r) ==
    IF r.fault THEN [h |-> h, subs |-> subs, fault |-> TRUE]
    ELSE IF Len(r.s.Lines) = 0 THEN RemoveHIFrom(h, CutSlot(subs, i), i - 1)
    ELSE RemoveHIFrom(h, subs, i - 1)

RemoveHIAt(h, subs, i, r) ==
    RemoveHIStep([h EXCEPT ![subs[i]] = r.s], subs, i, r)

RemoveHIFrom(h, subs, i) ==
    IF i < 1 THEN [h |-> h, subs |-> subs, fault |-> FALSE]
    ELSE RemoveHIAt(h, subs, i, SubtitleRemoveHI(h[subs[i]]))

RemoveHI(h, subs) == RemoveHIFrom(h, subs, Len(subs))

\* A faulty variant of Concatenate: the second pack is not shifted.
ConcatenateUnshifted(h, subs, subs2, secPartStart) ==
    Sorted(h, subs \o subs2)

Concatenate(h, subs, subs2, secPartStart) ==
    Sorted(Shift(h, subs2, secPartStart), subs \o subs2)

\* Both SetPos calls are made on the receiver, as in the code.
Merge(h, subs, subs2) ==
    Sorted(SetPos(SetPos(h, subs, PosNotSpecified), subs, Top), subs \o subs2)

\* sort.Search(n, f) with f(i) = subs[i].TimeIn >= at: the binary search of
\* package sort on the interval [i, j)
RECURSIVE Search(_, _, _, _, _)
SearchStep(h, subs, at, i, j, m) ==
    IF ~(h[subs[m + 1]].TimeIn >= at)
    THEN Search(h, subs, at, m + 1, j)
    ELSE Search(h, subs, at, i, m)

Search(h, subs, at, i, j) ==
    IF i >= j THEN i ELSE SearchStep(h, subs, at, i, j, (i + j) \div 2)

\* the two slices cut at idx, the second one shifted by -at
SplitAt(h, subs, at, idx) ==
    [h |-> Shift(h, SubSeq(subs, idx + 1, Len(subs)), -at),
     subs |-> SubSeq(subs, 1, idx),
     subs2 |-> SubSeq(subs, idx + 1, Len(subs))]

Split(h, subs, at) == SplitAt(h, subs, at, Search(h, subs, at, 0, Len(subs)))

\* SubsPack.Stats: the subtitles are modified.  For every slot the subtitle
\* loses its controls, its HTML formatting and its hearing impaired lines, in
\* this order, and the counters tell how many calls reported a change.  A
\* panic of Subtitle.RemoveHI ends the call where it stands.  s is the
\* subtitle of slot i, c is s after RemoveControl, t is c after RemoveHTML,
\* r the outcome of RemoveHI on t.
RECURSIVE StatsFrom(_, _, _, _)
StatsHI(h, subs, i, ss, r) ==
    IF r.fault
    THEN [h |-> [h EXCEPT ![subs[i]] = r.s], ss |-> ss, fault |-> TRUE]
    ELSE StatsFrom([h EXCEPT ![subs[i]] = r.s], subs, i + 1,
                   [ss EXCEPT !.HIs = @ + (IF r.remove THEN 1 ELSE 0)])

StatsHTML(h, subs, i, ss, c, t) ==
    StatsHI(h, subs, i, [ss EXCEPT !.HTMLs = @ + (IF t # c THEN 1 ELSE 0)],
            SubtitleRemoveHI(t))

\* A faulty variant of StatsControl: the controls are counted, and left in
\* the subtitle.
StatsControlKept(h, subs, i, ss, s, c) ==
    StatsHTML(h, subs, i,
              [ss EXCEPT !.TotalDispDur = @ + DisplayDuration(s),
                         !.Lines = @ + Len(s.Lines),
                         !.Controls = @ + (IF c # s THEN 1 ELSE 0)],
              s, SubtitleRemoveHTML(s))

StatsControl(h, subs, i, ss, s, c) ==
    StatsHTML(h, subs, i,
              [ss EXCEPT !.TotalDispDur = @ + DisplayDuration(s),
                         !.Lines = @ + Len(s.Lines),
                         !.Controls = @ + (IF c # s THEN 1 ELSE 0)],
              c, SubtitleRemoveHTML(c))

StatsFrom(h, subs, i, ss) ==
    IF i > Len(subs) THEN [h |-> h, ss |-> ss, fault |-> FALSE]
    ELSE StatsControl(h, subs, i, ss, h[subs[i]],
                      SubtitleRemoveControl(h[subs[i]]))

\* ss := SubsStats{Subs: len(sp.Subs)}
NewSubsStats(subs) ==
    [Subs |-> Len(subs), Lines |-> 0, TotalDispDur |-> 0, HTMLs |-> 0,
     Controls |-> 0, HIs |-> 0]

\* Stats: [h, ss, fault]
Stats(h, subs) == StatsFrom(h, subs, 1, NewSubsStats(subs))

(***************************************************************************)
(* The SubRip reader (subrip.go).                                          *)
(***************************************************************************)
\* Mapping between *.srt pos to our model Pos for the {\anX} variant;
\* PosNotSpecified stands for "not in the map".
srtPosToModelPos(c) ==
    CASE c = "7" -> TopLeft [] c = "8" -> Top [] c = "9" -> TopRight
      [] c = "4" -> Left [] c = "5" -> Center [] c = "6" -> Right
      [] c = "1" -> BottomLeft [] c = "2" -> Bottom [] c = "3" -> BottomRight
      [] OTHER -> PosNotSpecified

\* A faulty variant of the table below: the digits of TopLeft and TopRight
\* are exchanged.
modelPosToSrtPosMirrored(p) ==
    CASE p = TopLeft -> "9" [] p = Top -> "8" [] p = TopRight -> "7"
      [] p = Left -> "4" [] p = Center -> "5" [] p = Right -> "6"
      [] p = BottomLeft -> "1" [] p = Bottom -> "2" [] p = BottomRight -> "3"

\* Mapping between our model Pos to *.srt for the {\anX} variant
modelPosToSrtPos(p) ==
    CASE p = TopLeft -> "7" [] p = Top -> "8" [] p = TopRight -> "9"
      [] p = Left -> "4" [] p = Center -> "5" [] p = Right -> "6"
      [] p = BottomLeft -> "1" [] p = Bottom -> "2" [] p = BottomRight -> "3"

\* bufio.Scanner with the default split function ScanLines, on a reader that
\* hands out the whole text (a file, a buffer).  A token is a line without
\* its end-of-line marker (\n, with one \r before it dropped); a last line
\* without \n counts when it is not empty.  The buffer of the scanner grows
\* to MaxScanTokenSize bytes: when the bytes from the start of a line fill it
\* and hold no \n, Scan returns false and Err returns ErrTooLong.  The result
\* is [lines, err]: the tokens Scan has delivered and the value of Err ("" for
\* nil).
MaxScanTokenSize == 65536

ErrTooLong == "bufio.Scanner: token too long"

dropCR(s) ==
    IF Len(s) > 0 /\ Char(s, Len(s)) = "\r" THEN SubSeq(s, 1, Len(s) - 1) ELSE s

Scanned(line, rest) == [lines |-> <<line>> \o rest.lines, err |-> rest.err]

\* the scanning from byte i of text on, with a buffer of max bytes; nl is the
\* index of the first \n among the max bytes from i on
RECURSIVE ScanFrom(_, _, _)
ScanToken(text, i, max, nl) ==
    IF nl > 0
    THEN Scanned(dropCR(SubSeq(text, i, nl - 1)), ScanFrom(text, nl + 1, max))
    ELSE IF Len(text) - i + 1 >= max
    THEN [lines |-> <<>>, err |-> ErrTooLong]
    ELSE [lines |-> <<dropCR(From(text, i))>>, err |-> ""]

ScanFrom(text, i, max) ==
    IF i > Len(text) THEN [lines |-> <<>>, err |-> ""]
    ELSE ScanToken(text, i, max,
                   IndexIn(text, "\n", i, Min(Len(text), i + max - 1)))

ScanLines(text) == ScanFrom(text, 1, MaxScanTokenSize)

\* n decimal digits of s starting at index i: their value, or -1
RECURSIVE Digits(_, _, _)
MoreDigits(hi, c) == IF hi < 0 THEN -1 ELSE 10 * hi + DigitVal(c)

Digits(s, i, n) ==
    IF n = 0 THEN 0
    ELSE IF Char(s, i + n - 1) \notin Digit THEN -1
    ELSE MoreDigits(Digits(s, i, n - 1), Char(s, i + n - 1))

\* (\d\d):(\d\d):(\d\d)[,\.](\d\d\d) at index i: the four numbers, or <<>>
Stamp(h, m, sec, ms, marks) ==
    IF marks /\ h >= 0 /\ m >= 0 /\ sec >= 0 /\ ms >= 0
    THEN <<h, m, sec, ms>> ELSE <<>>

StampAt(s, i) ==
    Stamp(Digits(s, i, 2), Digits(s, i + 3, 2), Digits(s, i + 6, 2),
          Digits(s, i + 9, 3),
          i > 0 /\ Char(s, i + 2) = ":" /\ Char(s, i + 5) = ":"
                /\ Char(s, i + 8) \in {",", "."})

\* -+
Dashes(s, i) == IF i > 0 /\ Char(s, i) = "-" THEN SkipDash(s, i) ELSE 0

\* \s*-+>\s*
Arrow(s, i) == Sp(s, Lit(s, Dashes(s, Sp(s, i)), ">"))

Submatches(a, b) == IF a # <<>> /\ b # <<>> THEN a \o b ELSE <<>>

\* timestampsPattern anchored at index i: the eight submatches, or <<>>.
\* The pattern is
\* (\d\d):(\d\d):(\d\d)[,\.](\d\d\d)\s*-+>\s*(\d\d):(\d\d):(\d\d)[,\.](\d\d\d)
timestampsPatternAt(s, i) ==
    Submatches(StampAt(s, i), StampAt(s, Arrow(s, i + 12)))

\* timestampsPattern.FindStringSubmatch(line): the leftmost match
RECURSIVE timestampsPatternFind(_, _)
timestampsPatternNext(parts, s, i) ==
    IF parts # <<>> THEN parts ELSE timestampsPatternFind(s, i + 1)

timestampsPatternFind(s, i) ==
    IF i > Len(s) THEN <<>>
    ELSE timestampsPatternNext(timestampsPatternAt(s, i), s, i)

setTimestamps(s, parts) ==
    IF parts = <<>> THEN s
    ELSE [s EXCEPT
            !.TimeIn = Hour * parts[1] + Minute * parts[2] + Second * parts[3]
                       + Millisecond * parts[4],
            !.TimeOut = Hour * parts[5] + Minute * parts[6] + Second * parts[7]
                        + Millisecond * parts[8]]

parseTimestamps(s, line) == setTimestamps(s, timestampsPatternFind(line, 1))

\* starterFontPattern.FindStringSubmatch(line):
\*   ^\s*<\s*font\s+color\s*=\s*['"]?([^'"]*)['"]?\s*>
\* The result is [ok, len, color]: whether it matches, the length of the
\* whole match and submatch 1.
NoMatch == [ok |-> FALSE, len |-> 0, color |-> ""]

\* ^\s*<\s*font\s+color\s*=\s*
starterFontHead(s) ==
    Sp(s, Lit(s, Sp(s, Lit(s, Sp1(s, Lit(s, Sp(s, Lit(s, Sp(s, 1),
       "<")), "font")), "color")), "="))

\* ['"]?
OptQuote(s, i) == IF i > 0 /\ Char(s, i) \in {"'", "\""} THEN i + 1 ELSE i

\* \s*>
CloseAt(s, i) == Lit(s, Sp(s, i), ">")

\* the first quote at or after i, or the index after the end of s
RECURSIVE QuoteFrom(_, _)
QuoteFrom(s, i) ==
    IF i > Len(s) \/ Char(s, i) \in {"'", "\""} THEN i ELSE QuoteFrom(s, i + 1)

\* ([^'"]*) is greedy: it runs from q to the next quote (top) when that
\* quote and \s*> follow, and else it ends at the largest index e in g..top-1
\* where \s*> follows (GroupEnd, 0 when there is none).
RECURSIVE GroupEnd(_, _, _)
GroupEnd(s, e, g) ==
    IF e < g THEN 0
    ELSE IF CloseAt(s, e) > 0 THEN e
    ELSE GroupEnd(s, e - 1, g)

starterFontShort(s, q, ge) ==
    IF ge > 0
    THEN [ok |-> TRUE, len |-> CloseAt(s, ge) - 1, color |-> SubSeq(s, q, ge - 1)]
    ELSE NoMatch

starterFontGroup(s, q, top) ==
    IF top <= Len(s) /\ CloseAt(s, top + 1) > 0
    THEN [ok |-> TRUE, len |-> CloseAt(s, top + 1) - 1,
          color |-> SubSeq(s, q, top - 1)]
    ELSE starterFontShort(s, q, GroupEnd(s, top - 1, q))

starterFontFrom(s, q) ==
    IF q = 0 THEN NoMatch ELSE starterFontGroup(s, q, QuoteFrom(s, q))

starterFontPattern(s) == starterFontFrom(s, OptQuote(s, starterFontHead(s)))

\* fontClosingPattern = `<\s*/\s*font\s*>` anchored at index i: the index
\* after the match, or 0
fontClosingPatternAt(s, i) ==
    Lit(s, Sp(s, Lit(s, Sp(s, Lit(s, Sp(s, Lit(s, i, "<")), "/")), "font")), ">")

\* fontClosingPattern.FindStringIndex(v): <<start, end>> of the leftmost
\* match (1-based, end exclusive), or <<>>
RECURSIVE fontClosingPatternFind(_, _)
fontClosingPatternNext(end, s, i) ==
    IF end > 0 THEN <<i, end>> ELSE fontClosingPatternFind(s, i + 1)

fontClosingPatternFind(s, i) ==
    IF i > Len(s) THEN <<>>
    ELSE fontClosingPatternNext(fontClosingPatternAt(s, i), s, i)

\* addSub of ReadSrtFrom: the post-processing of a completed record.
\* find position spec in first line (e.g. {\anX})
addSubPos(s) ==
    IF /\ HasPrefix(s.Lines[1], "{\\a")
       /\ Len(s.Lines[1]) >= 6
       /\ Char(s.Lines[1], 4) = "n" /\ Char(s.Lines[1], 6) = "}"
       /\ srtPosToModelPos(Char(s.Lines[1], 5)) # PosNotSpecified
    THEN [s EXCEPT !.Pos = srtPosToModelPos(Char(s.Lines[1], 5)),
                   !.Lines[1] = From(@, 7)]
    ELSE s

\* for i, v := range s.Lines: cut the first </font> found, and break
RECURSIVE cutFontClosing(_, _)
cutFontClosingAt(lines, i, loc) ==
    IF loc # <<>>
    THEN [lines EXCEPT ![i] = SubSeq(@, 1, loc[1] - 1) \o From(@, loc[2])]
    ELSE cutFontClosing(lines, i + 1)

cutFontClosing(lines, i) ==
    IF i > Len(lines) THEN lines
    ELSE cutFontClosingAt(lines, i, fontClosingPatternFind(lines[i], 1))

\* Find if there is starter <font color="">
addSubFont(s, parts) ==
    IF parts.ok
    THEN [s EXCEPT !.Color = parts.color,
                   !.Lines = cutFontClosing([@ EXCEPT ![1] = From(@, parts.len + 1)], 1)]
    ELSE s

addSubColor(s) == addSubFont(s, starterFontPattern(s.Lines[1]))

addSub(s) == IF Len(s.Lines) > 0 THEN addSubColor(addSubPos(s)) ELSE s

\* The byte order mark "\xef\xbb\xbf" of UTF-8, one character per byte.
BOM == "ï»¿"

\* if lineNum == 0: if BOM is present, strip it off
StripBOM(line, i) == IF i = 1 /\ HasPrefix(line, BOM) THEN From(line, 4) ELSE line

\* A faulty variant of the test below: a record in progress at the end of the
\* input is dropped.
ReadFlushNever(cur, subs) == subs

\* if s != nil { addSub() }: append the last subtitle if there is no empty
\* line at the end of the input
ReadFlush(cur, subs) ==
    IF cur # <<>> THEN Append(subs, addSub(cur[1])) ELSE subs

\* The scanning loop of ReadSrtFrom over the lines the scanner delivers, from
\* index i on.  cur is <<>> for s == nil and <<s>> otherwise; subs are the
\* subtitles appended so far; line is the line i, without the byte order
\* mark when it is the first one.
RECURSIVE ReadLoop(_, _, _, _, _)
ReadStep(lines, i, phase, cur, subs, line) ==
    CASE phase = 0 ->
           IF line = "" THEN ReadLoop(lines, i + 1, 0, cur, subs)
           ELSE ReadLoop(lines, i + 1, 1, <<NewSubtitle>>, subs)
      [] phase = 1 ->
           ReadLoop(lines, i + 1, 2, <<parseTimestamps(cur[1], line)>>, subs)
      [] phase = 2 ->
           IF line = ""
           THEN ReadLoop(lines, i + 1, 0, <<>>, Append(subs, addSub(cur[1])))
           ELSE ReadLoop(lines, i + 1, 2,
                         <<[cur[1] EXCEPT !.Lines = Append(@, line)]>>, subs)

ReadLoop(lines, i, phase, cur, subs) ==
    IF i > Len(lines) THEN ReadFlush(cur, subs)
    ELSE ReadStep(lines, i, phase, cur, subs, StripBOM(lines[i], i))

\* sp.Sort() on the subtitles read: the heap holds them in the order of the
\* input, the slice lists their addresses
SortRead(h) == Sorted(h, [i \in 1..Len(h) |-> i])

\* err = scanner.Err(); return: the pack holds the subtitles of the lines
\* read, also when the scanner has ended with an error
ReadReturn(r, e) == [h |-> r.h, subs |-> r.subs, err |-> e]

ReadScanned(sc) ==
    ReadReturn(SortRead(ReadLoop(sc.lines, 1, 0, <<>>, <<>>)), sc.err)

\* ReadSrtFrom: [h, subs, err]
ReadSrtFrom(text) == ReadScanned(ScanLines(text))

(***************************************************************************)
(* The SubRip writer (subrip.go) on the writer utility.                    *)
(***************************************************************************)
newLine == "\r\n"

\* fmt's %0<w>d: zero padding to width w, the sign counted in the width
RECURSIVE ZeroPad(_, _)
ZeroPad(str, w) == IF Len(str) >= w THEN str ELSE ZeroPad("0" \o str, w)

FmtD(n, w) == IF n >= 0 THEN ZeroPad(ToString(n), w)
              ELSE "-" \o ZeroPad(ToString(-n), w - 1)

\* wr.prf("%02d:%02d:%02d.%03d", hour, min, sec, ms)
printTime(t) ==
    FmtD(Quot(t, Hour), 2) \o ":" \o FmtD(Quot(Rem(t, Hour), Minute), 2) \o ":"
    \o FmtD(Quot(Rem(t, Minute), Second), 2) \o "."
    \o FmtD(Quot(Rem(t, Second), Millisecond), 3)

\* the text lines of one subtitle, from line i on
RECURSIVE writeLines(_, _)
writeLines(s, i) ==
    IF i > Len(s.Lines) THEN ""
    ELSE (IF i = 1 /\ s.Pos # PosNotSpecified
          THEN "{\\an" \o modelPosToSrtPos(s.Pos) \o "}" ELSE "")
         \o (IF s.Color # ""
             THEN (IF i = 1 THEN "<font color=\"" \o s.Color \o "\">" ELSE "")
                  \o s.Lines[i]
                  \o (IF i = Len(s.Lines) THEN "</font>" ELSE "")
                  \o newLine
             ELSE s.Lines[i] \o newLine)
         \o writeLines(s, i + 1)

\* one record: sequence number, timestamps, texts, separator
writeSub(s, i) ==
    ToString(i) \o newLine
    \o printTime(s.TimeIn) \o " --> " \o printTime(s.TimeOut) \o newLine
    \o writeLines(s, 1)
    \o newLine

\* WriteSrtTo on a sink that accepts every write: the bytes written
RECURSIVE WriteSrtFrom(_, _, _)
WriteSrtFrom(h, subs, i) ==
    IF i > Len(subs) THEN ""
    ELSE writeSub(h[subs[i]], i) \o WriteSrtFrom(h, subs, i + 1)

WriteSrtTo(h, subs) == WriteSrtFrom(h, subs, 1)

(***************************************************************************)
(* The inputs of the model: SubRip files made of the records below.        *)
(***************************************************************************)
Records ==
    << [ts |-> "00:00:00,002 --> 00:00:00,004",
        lines |-> <<"Hello">>],
       [ts |-> "00:00:00,005 --> 00:00:00,006",
        lines |-> <<"[PHONE RINGING]">>],
       [ts |-> "00:00:00,006 --> 00:00:00,014",
        lines |-> <<"{\\an8}<font color=\"red\">[MUSIC]", "<i>(sighs)</i>", "Hi</font>">>],
       [ts |-> "01:02:03,004 --> 01:02:04,005",
        lines |-> <<"<font color=\"red\">A</font> <b>or</b> <font color=\"blue\">B</font>!">>],
       [ts |-> "00:00:00,001 --> 00:00:00,007",
        lines |-> <<"{\\an2}", "- Bye">>] >>

RECURSIVE JoinLines(_, _)
JoinLines(lines, i) ==
    IF i > Len(lines) THEN "" ELSE lines[i] \o "\r\n" \o JoinLines(lines, i + 1)

\* the file holding the records rs (indices into Records), numbered from k
RECURSIVE SrtFile(_, _)
SrtFile(rs, k) ==
    IF k > Len(rs) THEN ""
    ELSE ToString(k) \o "\r\n" \o Records[rs[k]].ts \o "\r\n"
         \o JoinLines(Records[rs[k]].lines, 1) \o "\r\n" \o SrtFile(rs, k + 1)

\* the record lists of the primary inputs: at most MaxRecs consecutive
\* records (the records 4, 5 are out of order)
Runs ==
    {rs \in {[k \in 1..n |-> a + k - 1] : a \in 1..Len(Records), n \in 0..MaxRecs} :
        \A k \in 1..Len(rs) : rs[k] <= Len(Records)}

\* a line of n bytes
RECURSIVE Fill(_)
Twice(s) == s \o s

Fill(n) ==
    IF n = 0 THEN ""
    ELSE IF n % 2 = 1 THEN "a" \o Fill(n - 1)
    ELSE Twice(Fill(n \div 2))

\* a file whose second record starts with a line that fills the buffer of
\* the scanner
Overlong == SrtFile(<<1>>, 1) \o Fill(MaxScanTokenSize)

\* the files the primary pack is read from
Inputs1 == {SrtFile(rs, 1) : rs \in Runs} \cup {Overlong}

\* the files the secondary pack is read from
Inputs2 == {SrtFile(<<2>>, 1), SrtFile(<<5, 1>>, 1)}

\* the arguments of the transformations
Deltas == {-3 * Millisecond, 2 * Millisecond}
Factors == {<<1, 2>>, <<2, 1>>}
LengthenFactors == {<<0, 1>>, <<1, 2>>, <<2, 1>>}
Positions == {BottomLeft}
Colors == {"yellow"}
Starts == {3 * Millisecond}
Cuts == {0, 3 * Millisecond}

(***************************************************************************)
(* The state: the heap of Subtitle values, the two packs of the caller     *)
(* (Executor.Sp1 and Executor.Sp2), the file written, and the history of   *)
(* the calls made; the Executor of the caller, the writer of a codec on a  *)
(* sink that can fail, and the style key computed for a subtitle.          *)
(***************************************************************************)
VARIABLES
    heap,    \* the Subtitle values, by address
    sp1,     \* the primary pack
    sp2,     \* the secondary pack
    donor,   \* what sp2 has given to sp1: "fresh", "concatenated", "merged"
    out,     \* [written, text, written2, text2]: the bytes written to the
             \* files Out and Out2
    fault,   \* a call has panicked: the program has stopped
    err,     \* the error the last ReadSrtFrom has returned ("" for nil)
    hist,    \* the calls made so far, [op, n, f, c] each
    pre,     \* [heap, sp1, sp2] as they were before the last call
    exec,    \* [e, args, pc, err]: the Executor, the arguments it was given,
             \* how far its caller is, the error GearIt returned ("" for nil)
    wr,      \* [format, failing, log, err]: the writer of WriteSrtTo / WriteSsaTo
    key      \* [done, Pos, Color, Iters]: the styleKey keyFromSub has returned
             \* and the iterations its loop has made

vars == <<heap, sp1, sp2, donor, out, fault, err, hist, pre, exec, wr, key>>

\* &Executor{}: every field has the zero value of its type
NewExecutor ==
    [Out |-> "", Out2 |-> "", Concat |-> "", Merge |-> FALSE, SplitAt |-> "",
     ShiftBy |-> 0, Scale |-> <<0, 1>>, Lengthen |-> <<0, 1>>,
     RemoveHTML |-> FALSE, RemoveCtrl |-> FALSE, RemoveHI |-> FALSE,
     Pos |-> "", Color |-> "", Stats |-> FALSE, Modified |-> FALSE]

\* a sink that accepts every write (at = 0), or refuses its write number at
\* and, when stuck, every write after it
NoFailure == [at |-> 0, stuck |-> FALSE]

\* wr := &writer{w: w}, with the writes the sink has been given
NewWriter == [called |-> FALSE, log |-> <<>>, err |-> 0]

Call(op, n, f, c) == [op |-> op, n |-> n, f |-> f, c |-> c]

NoFactor == <<0, 1>>

Snapshot == [heap |-> heap, sp1 |-> sp1, sp2 |-> sp2]

Last == hist[Len(hist)]

\* the number of transformations made since the packs were loaded
NOps == Cardinality({i \in 1..Len(hist) : hist[i].op \notin {"ReadSrtFrom", "WriteSrtTo"}})

Init ==
    /\ heap = <<>>
    /\ sp1 = NilPack
    /\ sp2 = NilPack
    /\ donor = "fresh"
    /\ out = [written |-> FALSE, text |-> "", written2 |-> FALSE, text2 |-> ""]
    /\ fault = FALSE
    /\ err = ""
    /\ hist = <<>>
    /\ pre = [heap |-> <<>>, sp1 |-> NilPack, sp2 |-> NilPack]
    /\ exec = [e |-> NewExecutor, args |-> <<>>, pc |-> "new", err |-> ""]
    /\ wr = [failing |-> NoFailure, srt |-> NewWriter, ssa |-> NewWriter]
    /\ key = [done |-> FALSE, Pos |-> 0, Color |-> 0, Iters |-> 0]

\* the common part of every call the caller makes on the library itself
Did(op, n, f, c) ==
    /\ hist' = Append(hist, Call(op, n, f, c))
    /\ pre' = Snapshot
    /\ UNCHANGED <<err, exec, wr, key>>

\* a call of ReadSrtFrom that has returned the error e
DidRead(n, text, e) ==
    /\ hist' = Append(hist, Call("ReadSrtFrom", n, NoFactor, text))
    /\ pre' = Snapshot
    /\ err' = e
    /\ UNCHANGED <<exec, wr, key>>

\* sp1, err := ReadSrtFile(In): the first thing the program does
ReadSrt1 ==
    /\ hist = <<>>
    /\ \E text \in Inputs1 : \E r \in {ReadSrtFrom(text)} :
         /\ heap' = r.h
         /\ sp1' = Pack(r.subs)
         /\ DidRead(1, text, r.err)
    /\ UNCHANGED <<sp2, donor, out, fault>>

\* sp2, err := ReadSrtFile(In2), after the primary pack is read without an
\* error, or without one: the addresses of its subtitles follow those of the
\* primary pack
ReadSrt2 ==
    /\ Len(hist) <= 1
    /\ sp2.nil
    /\ err = ""
    /\ \E text \in Inputs2 : \E r \in {ReadSrtFrom(text)} :
         /\ heap' = heap \o r.h
         /\ sp2' = Pack([i \in 1..Len(r.subs) |-> Len(heap) + r.subs[i]])
         /\ DidRead(2, text, r.err)
    /\ UNCHANGED <<sp1, donor, out, fault>>

\* a transformation can be called: the primary pack is loaded, nothing has
\* panicked, no file has been written
CanGear ==
    /\ ~sp1.nil
    /\ ~fault
    /\ err = ""
    /\ ~out.written /\ ~out.written2
    /\ NOps < MaxOps

DoShift ==
    /\ CanGear
    /\ \E delta \in Deltas :
         /\ heap' = Shift(heap, sp1.Subs, delta)
         /\ Did("Shift", delta, NoFactor, "")
    /\ UNCHANGED <<sp1, sp2, donor, out, fault>>

DoScale ==
    /\ CanGear
    /\ \E factor \in Factors :
         /\ heap' = Scale(heap, sp1.Subs, factor)
         /\ Did("Scale", 0, factor, "")
    /\ UNCHANGED <<sp1, sp2, donor, out, fault>>

DoLengthen ==
    /\ CanGear
    /\ \E factor \in LengthenFactors :
         /\ heap' = Lengthen(heap, sp1.Subs, factor)
         /\ Did("Lengthen", 0, factor, "")
    /\ UNCHANGED <<sp1, sp2, donor, out, fault>>

DoSetPos ==
    /\ CanGear
    /\ \E pos \in Positions :
         /\ heap' = SetPos(heap, sp1.Subs, pos)
         /\ Did("SetPos", pos, NoFactor, "")
    /\ UNCHANGED <<sp1, sp2, donor, out, fault>>

DoSetColor ==
    /\ CanGear
    /\ \E color \in Colors :
         /\ heap' = SetColor(heap, sp1.Subs, color)
         /\ Did("SetColor", 0, NoFactor, color)
    /\ UNCHANGED <<sp1, sp2, donor, out, fault>>

DoRemoveHTML ==
    /\ CanGear
    /\ heap' = RemoveHTML(heap, sp1.Subs)
    /\ Did("RemoveHTML", 0, NoFactor, "")
    /\ UNCHANGED <<sp1, sp2, donor, out, fault>>

DoRemoveControl ==
    /\ CanGear
    /\ heap' = RemoveControl(heap, sp1.Subs)
    /\ Did("RemoveControl", 0, NoFactor, "")
    /\ UNCHANGED <<sp1, sp2, donor, out, fault>>

DoRemoveHI ==
    /\ CanGear
    /\ \E r \in {RemoveHI(heap, sp1.Subs)} :
         /\ heap' = r.h
         /\ sp1' = Pack(r.subs)
         /\ fault' = r.fault
    /\ Did("RemoveHI", 0, NoFactor, "")
    /\ UNCHANGED <<sp2, donor, out>>

\* sp1.Concatenate(sp2, secPartStart).  A pack that has given its subtitles
\* away is not concatenated again: GearIt concatenates before anything
\* else, and the caller of the library treats a donor as consumed.
DoConcatenate ==
    /\ CanGear
    /\ ~sp2.nil
    /\ donor = "fresh"
    /\ \E start \in Starts : \E r \in {Concatenate(heap, sp1.Subs, sp2.Subs, start)} :
         /\ heap' = r.h
         /\ sp1' = Pack(r.subs)
         /\ Did("Concatenate", start, NoFactor, "")
    /\ donor' = "concatenated"
    /\ UNCHANGED <<sp2, out, fault>>

\* sp1.Merge(sp2): GearIt merges the pack it may just have concatenated
DoMerge ==
    /\ CanGear
    /\ ~sp2.nil
    /\ donor # "merged"
    /\ \E r \in {Merge(heap, sp1.Subs, sp2.Subs)} :
         /\ heap' = r.h
         /\ sp1' = Pack(r.subs)
    /\ Did("Merge", 0, NoFactor, "")
    /\ donor' = "merged"
    /\ UNCHANGED <<sp2, out, fault>>

\* sp2 = sp1.Split(at): the new pack replaces the secondary one
DoSplit ==
    /\ CanGear
    /\ \E at \in Cuts : \E r \in {Split(heap, sp1.Subs, at)} :
         /\ heap' = r.h
         /\ sp1' = Pack(r.subs)
         /\ sp2' = Pack(r.subs2)
         /\ Did("Split", at, NoFactor, "")
    /\ donor' = "fresh"
    /\ UNCHANGED <<out, fault>>

\* writeFiles: WriteSrtFile(Out, sp1) when Out is given and sp1 is loaded,
\* then WriteSrtFile(Out2, sp2) when Out2 is given and sp2 is loaded.  The
\* call recorded tells the files written: 1 the first, 2 the second, 3 both.
Written(w1, w2) ==
    [written |-> w1, text |-> IF w1 THEN WriteSrtTo(heap, sp1.Subs) ELSE "",
     written2 |-> w2, text2 |-> IF w2 THEN WriteSrtTo(heap, sp2.Subs) ELSE ""]

DoWriteSrt ==
    /\ ~fault
    /\ err = ""
    /\ ~out.written /\ ~out.written2
    /\ \E w1 \in {FALSE, ~sp1.nil} : \E w2 \in {FALSE, ~sp2.nil} :
         /\ w1 \/ w2
         /\ out' = Written(w1, w2)
         /\ Did("WriteSrtTo", (IF w1 THEN 1 ELSE 0) + (IF w2 THEN 2 ELSE 0),
                NoFactor, "")
    /\ UNCHANGED <<heap, sp1, sp2, donor, fault>>

\* a later run of the program reads the file written as its primary pack
ReadBack ==
    /\ out.written
    /\ Last.op = "WriteSrtTo"
    /\ \E r \in {ReadSrtFrom(out.text)} :
         /\ heap' = r.h
         /\ sp1' = Pack(r.subs)
         /\ DidRead(3, out.text, r.err)
    /\ sp2' = NilPack
    /\ donor' = "fresh"
    /\ UNCHANGED <<out, fault>>

Next ==
    \/ ReadSrt1
    \/ ReadSrt2
    \/ DoShift
    \/ DoScale
    \/ DoLengthen
    \/ DoSetPos
    \/ DoSetColor
    \/ DoRemoveHTML
    \/ DoRemoveControl
    \/ DoRemoveHI
    \/ DoConcatenate
    \/ DoMerge
    \/ DoSplit
    \/ DoWriteSrt
    \/ ReadBack

Spec == Init /\ [][Next]_vars

(***************************************************************************)
(* The Executor (package exec): the arguments, and GearIt.                 *)
(***************************************************************************)
\* strconv on the value of an integer flag: an optional '-' and decimal
\* digits
Atoi(v) ==
    IF Char(v, 1) = "-" THEN -Digits(v, 2, Len(v) - 1) ELSE Digits(v, 1, Len(v))

\* strconv on the value of a float64 flag, as the factor <<num, den>>; the
\* values of the model are integer literals
ParseFloat(v) == <<Atoi(v), 1>>

\* strconv.ParseBool on the value of a boolean flag ("-merge" stands for
\* "-merge=true")
ParseBool(v) == v \in {"1", "t", "T", "TRUE", "true", "True"}

\* The flags ProcFlags defines, each pointing to a field of the Executor:
\* what Parse does with one argument "-name=value".  (The flags in, in2 and
\* debug are not of the model: the caller reads the files, and GearIt only
\* prints In.)
FlagSet(e, name, value) ==
    CASE name = "out" -> [e EXCEPT !.Out = value]
      [] name = "out2" -> [e EXCEPT !.Out2 = value]
      [] name = "concat" -> [e EXCEPT !.Concat = value]
      [] name = "merge" -> [e EXCEPT !.Merge = ParseBool(value)]
      [] name = "splitAt" -> [e EXCEPT !.SplitAt = value]
      [] name = "shiftBy" -> [e EXCEPT !.ShiftBy = Atoi(value)]
      [] name = "scale" -> [e EXCEPT !.Scale = ParseFloat(value)]
      [] name = "lengthen" -> [e EXCEPT !.Lengthen = ParseFloat(value)]
      [] name = "removehtml" -> [e EXCEPT !.RemoveHTML = ParseBool(value)]
      [] name = "removectrl" -> [e EXCEPT !.RemoveCtrl = ParseBool(value)]
      [] name = "removehi" -> [e EXCEPT !.RemoveHI = ParseBool(value)]
      [] name = "pos" -> [e EXCEPT !.Pos = value]
      [] name = "color" -> [e EXCEPT !.Color = value]
      [] name = "stats" -> [e EXCEPT !.Stats = ParseBool(value)]

\* f.Parse(arguments): the arguments are taken one after the other, so the
\* last value given for a flag is the one the field keeps
RECURSIVE ProcFlagsFrom(_, _, _)
ProcFlagsFrom(e, arguments, i) ==
    IF i > Len(arguments) THEN e
    ELSE ProcFlagsFrom(FlagSet(e, arguments[i].name, arguments[i].value),
                       arguments, i + 1)

ProcFlags(e, arguments) == ProcFlagsFrom(e, arguments, 1)

\* timestampPattern.FindStringSubmatch(t), (\d\d):(\d\d):(\d\d)[,\.](\d\d\d):
\* the four numbers of the leftmost match, or <<>>
RECURSIVE timestampPatternFind(_, _)
timestampPatternNext(parts, t, i) ==
    IF parts # <<>> THEN parts ELSE timestampPatternFind(t, i + 1)

timestampPatternFind(t, i) ==
    IF i > Len(t) THEN <<>> ELSE timestampPatternNext(StampAt(t, i), t, i)

\* parseTime: [ok, d], ok = FALSE for the error "Invalid time"
parseTimeOf(parts) ==
    IF parts = <<>> THEN [ok |-> FALSE, d |-> 0]
    ELSE [ok |-> TRUE,
          d |-> Hour * parts[1] + Minute * parts[2] + Second * parts[3]
                + Millisecond * parts[4]]

parseTime(t) == parseTimeOf(timestampPatternFind(t, 1))

\* Mapping between positions expected in arguments to our model Pos;
\* PosNotSpecified stands for "not in the map".
argPosToModelPos(p) ==
    CASE p = "TL" -> TopLeft [] p = "T" -> Top [] p = "TR" -> TopRight
      [] p = "L" -> Left [] p = "C" -> Center [] p = "R" -> Right
      [] p = "BL" -> BottomLeft [] p = "B" -> Bottom [] p = "BR" -> BottomRight
      [] OTHER -> PosNotSpecified

\* A run of GearIt is [e, h, sp1, sp2, calls, fault, returned, err]: the
\* Executor, the heap, the local variables sp1 and sp2, the calls made on
\* sp1 so far, whether a call has panicked, whether GearIt has returned, and
\* the error it returned ("" for nil).
Run(e, h, p1, p2) ==
    [e |-> e, h |-> h, sp1 |-> p1, sp2 |-> p2, calls |-> <<>>,
     fault |-> FALSE, returned |-> FALSE, err |-> ""]

\* the run has reached the statement
Running(g) == ~g.returned /\ ~g.fault

\* return err
Returned(g, msg) == [g EXCEPT !.returned = TRUE, !.err = msg]

\* a call on sp1 that has changed the heap and the slice of sp1, followed by
\* e.Modified = true
Applied(g, h, subs, call) ==
    [g EXCEPT !.h = h, !.sp1 = Pack(subs), !.calls = Append(@, call),
              !.e.Modified = TRUE]

\* A faulty variant of the validation: the secondary pack is not looked at.
GearValidateSp1(g) ==
    IF g.sp1.nil
    THEN Returned(g, "Input file must be specified ('-in')!")
    ELSE g

GearValidate(g) ==
    IF g.sp1.nil
    THEN Returned(g, "Input file must be specified ('-in')!")
    ELSE IF g.sp2.nil /\ (g.e.Concat # "" \/ g.e.Merge)
    THEN Returned(g, "2nd input file must be specified ('-in2')!")
    ELSE g

GearConcatenated(g, r, secPartStart) ==
    Applied(g, r.h, r.subs, Call("Concatenate", secPartStart, NoFactor, ""))

GearConcatAt(g, t) ==
    IF ~t.ok THEN Returned(g, "Invalid time for concat: " \o g.e.Concat)
    ELSE GearConcatenated(g, Concatenate(g.h, g.sp1.Subs, g.sp2.Subs, t.d), t.d)

GearConcat(g) ==
    IF Running(g) /\ g.e.Concat # "" THEN GearConcatAt(g, parseTime(g.e.Concat))
    ELSE g

GearMerged(g, r) == Applied(g, r.h, r.subs, Call("Merge", 0, NoFactor, ""))

GearMerge(g) ==
    IF Running(g) /\ g.e.Merge
    THEN GearMerged(g, Merge(g.h, g.sp1.Subs, g.sp2.Subs))
    ELSE g

GearLengthen(g) ==
    IF Running(g) /\ g.e.Lengthen[1] # 0
    THEN Applied(g, Lengthen(g.h, g.sp1.Subs, g.e.Lengthen), g.sp1.Subs,
                 Call("Lengthen", 0, g.e.Lengthen, ""))
    ELSE g

GearRemoveCtrl(g) ==
    IF Running(g) /\ g.e.RemoveCtrl
    THEN Applied(g, RemoveControl(g.h, g.sp1.Subs), g.sp1.Subs,
                 Call("RemoveControl", 0, NoFactor, ""))
    ELSE g

\* a panic of sp1.RemoveHI() leaves GearIt before e.Modified = true
GearRemovedHI(g, r) ==
    IF r.fault
    THEN [g EXCEPT !.h = r.h, !.sp1 = Pack(r.subs), !.fault = TRUE,
                   !.calls = Append(@, Call("RemoveHI", 0, NoFactor, ""))]
    ELSE Applied(g, r.h, r.subs, Call("RemoveHI", 0, NoFactor, ""))

GearRemoveHI(g) ==
    IF Running(g) /\ g.e.RemoveHI
    THEN GearRemovedHI(g, RemoveHI(g.h, g.sp1.Subs))
    ELSE g

GearRemoveHTML(g) ==
    IF Running(g) /\ g.e.RemoveHTML
    THEN Applied(g, RemoveHTML(g.h, g.sp1.Subs), g.sp1.Subs,
                 Call("RemoveHTML", 0, NoFactor, ""))
    ELSE g

GearPosAt(g, pos2) ==
    IF pos2 = PosNotSpecified
    THEN Returned(g, "Invalid pos value: " \o g.e.Pos)
    ELSE Applied(g, SetPos(g.h, g.sp1.Subs, pos2), g.sp1.Subs,
                 Call("SetPos", pos2, NoFactor, ""))

\* A faulty variant of GearPos: the position is set before it is checked.
GearPosUnchecked(g) ==
    IF Running(g) /\ g.e.Pos # ""
    THEN GearPosAt(Applied(g, SetPos(g.h, g.sp1.Subs, argPosToModelPos(g.e.Pos)),
                           g.sp1.Subs,
                           Call("SetPos", argPosToModelPos(g.e.Pos), NoFactor, "")),
                   argPosToModelPos(g.e.Pos))
    ELSE g

GearPos(g) ==
    IF Running(g) /\ g.e.Pos # "" THEN GearPosAt(g, argPosToModelPos(g.e.Pos))
    ELSE g

GearColor(g) ==
    IF Running(g) /\ g.e.Color # ""
    THEN Applied(g, SetColor(g.h, g.sp1.Subs, g.e.Color), g.sp1.Subs,
                 Call("SetColor", 0, NoFactor, g.e.Color))
    ELSE g

GearScale(g) ==
    IF Running(g) /\ g.e.Scale[1] # 0
    THEN Applied(g, Scale(g.h, g.sp1.Subs, g.e.Scale), g.sp1.Subs,
                 Call("Scale", 0, g.e.Scale, ""))
    ELSE g

\* sp1.Shift(time.Duration(e.ShiftBy) * time.Millisecond)
GearShift(g) ==
    IF Running(g) /\ g.e.ShiftBy # 0
    THEN Applied(g, Shift(g.h, g.sp1.Subs, g.e.ShiftBy * Millisecond), g.sp1.Subs,
                 Call("Shift", g.e.ShiftBy * Millisecond, NoFactor, ""))
    ELSE g

\* sp2 = sp1.Split(at); e.Sp2 = sp2
GearSplitted(g, r, at) ==
    [Applied(g, r.h, r.subs, Call("Split", at, NoFactor, ""))
        EXCEPT !.sp2 = Pack(r.subs2)]

GearSplitAt(g, t) ==
    IF ~t.ok THEN Returned(g, "Invalid time for splitAt: " \o g.e.SplitAt)
    ELSE GearSplitted(g, Split(g.h, g.sp1.Subs, t.d), t.d)

GearSplit(g) ==
    IF Running(g) /\ g.e.SplitAt # "" THEN GearSplitAt(g, parseTime(g.e.SplitAt))
    ELSE g

\* ss := sp1.Stats(), which modifies the subtitles; what is printed of ss is
\* not of the model
GearStatsDone(g, r) ==
    [g EXCEPT !.h = r.h, !.fault = r.fault,
              !.calls = Append(@, Call("Stats", 0, NoFactor, ""))]

GearStats(g) ==
    IF Running(g) /\ g.e.Stats THEN GearStatsDone(g, Stats(g.h, g.sp1.Subs))
    ELSE g

\* If there were modifications but no output file is specified, treat that
\* as an error
GearOutput(g) ==
    IF ~Running(g) THEN g
    ELSE IF ~g.e.Stats /\ g.e.Modified /\ g.e.Out = ""
    THEN Returned(g, "Output file must be specified ('-out')!")
    ELSE IF ~g.e.Stats /\ g.e.Modified /\ g.e.SplitAt # "" /\ g.e.Out2 = ""
    THEN Returned(g, "Second output file must be specified ('-out2')!")
    ELSE Returned(g, "")

\* A faulty variant of GearIt: the shift is applied before the scaling.
GearItShiftFirst(e, h, p1, p2) ==
    GearOutput(GearStats(GearSplit(GearScale(GearShift(GearColor(GearPos(
    GearRemoveHTML(GearRemoveHI(GearRemoveCtrl(GearLengthen(GearMerge(
    GearConcat(GearValidate(Run(e, h, p1, p2)))))))))))))))

\* GearIt on the Executor e with e.Sp1 = p1 and e.Sp2 = p2: the run at its end
GearIt(e, h, p1, p2) ==
    GearOutput(GearStats(GearSplit(GearShift(GearScale(GearColor(GearPos(
    GearRemoveHTML(GearRemoveHI(GearRemoveCtrl(GearLengthen(GearMerge(
    GearConcat(GearValidate(Run(e, h, p1, p2)))))))))))))))

\* The arguments of the model: a value of every flag, the default value of
\* the numeric flags and a value parseTime or the position map refuses
\* among them.
Args ==
    << [name |-> "out", value |-> "o.srt"],
       [name |-> "out2", value |-> "o2.srt"],
       [name |-> "concat", value |-> "00:00:00,003"],
       [name |-> "concat", value |-> "3s"],
       [name |-> "merge", value |-> "true"],
       [name |-> "splitAt", value |-> "00:00:00,003"],
       [name |-> "splitAt", value |-> "3s"],
       [name |-> "shiftBy", value |-> "2"],
       [name |-> "shiftBy", value |-> "0"],
       [name |-> "scale", value |-> "2"],
       [name |-> "scale", value |-> "0"],
       [name |-> "lengthen", value |-> "2"],
       [name |-> "lengthen", value |-> "0"],
       [name |-> "removehtml", value |-> "true"],
       [name |-> "removectrl", value |-> "true"],
       [name |-> "removehi", value |-> "true"],
       [name |-> "pos", value |-> "BL"],
       [name |-> "pos", value |-> "X"],
       [name |-> "color", value |-> "yellow"],
       [name |-> "stats", value |-> "true"] >>

\* the ways to pick n of them, in the order of Args
Picks(n) ==
    {s \in [1..n -> 1..Len(Args)] : \A i \in 1..(n - 1) : s[i] < s[i + 1]}

ArgsAt(s) == [i \in 1..Len(s) |-> Args[s[i]]]

Reverse(s) == [i \in 1..Len(s) |-> s[Len(s) + 1 - i]]

\* the argument lists: at most max arguments, in the order of Args or
\* in the opposite order
ArgLists(max) ==
    UNION {{ArgsAt(s), Reverse(ArgsAt(s))} :
             s \in UNION {Picks(n) : n \in 0..max}}

\* the files the caller of the Executor reads into Sp1 and Sp2
ExecInputs1 == {SrtFile(<<1, 2, 3>>, 1), SrtFile(<<5>>, 1)}

ExecInputs2 == {SrtFile(<<2>>, 1)}

\* e.ProcFlags(args) on a new Executor
ExecProcFlags ==
    /\ exec.pc = "new"
    /\ \E arguments \in ArgLists(MaxArgs) :
         exec' = [exec EXCEPT !.e = ProcFlags(@, arguments),
                              !.args = arguments, !.pc = "parsed"]
    /\ UNCHANGED <<heap, sp1, sp2, donor, out, fault, err, hist, pre, wr, key>>

\* e.Sp1, err = srtgears.ReadSrtFrom(in), when an input is given
ExecReadSrt1 ==
    /\ exec.pc = "parsed"
    /\ sp1.nil /\ sp2.nil
    /\ \E text \in ExecInputs1 : \E r \in {ReadSrtFrom(text)} :
         /\ heap' = r.h
         /\ sp1' = Pack(r.subs)
         /\ DidRead(1, text, r.err)
    /\ UNCHANGED <<sp2, donor, out, fault>>

\* e.Sp2, err = srtgears.ReadSrtFrom(in2), when a second input is given
ExecReadSrt2 ==
    /\ exec.pc = "parsed"
    /\ sp2.nil
    /\ err = ""
    /\ \E text \in ExecInputs2 : \E r \in {ReadSrtFrom(text)} :
         /\ heap' = heap \o r.h
         /\ sp2' = Pack([i \in 1..Len(r.subs) |-> Len(heap) + r.subs[i]])
         /\ DidRead(2, text, r.err)
    /\ UNCHANGED <<sp1, donor, out, fault>>

\* err := e.GearIt(): the calls it makes on sp1 are added to the history; a
\* panic leaves the caller with what the calls before it have done
ExecGearIt ==
    /\ exec.pc = "parsed"
    /\ err = ""
    /\ \E g \in {GearIt(exec.e, heap, sp1, sp2)} :
         /\ heap' = g.h
         /\ sp1' = g.sp1
         /\ sp2' = g.sp2
         /\ fault' = g.fault
         /\ hist' = hist \o g.calls
         /\ exec' = [exec EXCEPT !.e = g.e, !.err = g.err,
                                 !.pc = IF g.fault THEN "panicked" ELSE "returned"]
    /\ pre' = Snapshot
    /\ UNCHANGED <<donor, out, err, wr, key>>

ExecNext ==
    \/ ExecProcFlags
    \/ ExecReadSrt1
    \/ ExecReadSrt2
    \/ ExecGearIt

ExecSpec == Init /\ [][ExecNext]_vars

(***************************************************************************)
(* Sub Station Alpha: the style key of a subtitle (keyFromSub).            *)
(***************************************************************************)
UpperCase ==
    <<"A", "B", "C", "D", "E", "F", "G", "H", "I", "J", "K", "L", "M",
      "N", "O", "P", "Q", "R", "S", "T", "U", "V", "W", "X", "Y", "Z">>

LowerCase ==
    <<"a", "b", "c", "d", "e", "f", "g", "h", "i", "j", "k", "l", "m",
      "n", "o", "p", "q", "r", "s", "t", "u", "v", "w", "x", "y", "z">>

\* the place of the character c in the sequence cs, 0 when it is not there
PlaceIn(cs, c) ==
    IF \E i \in 1..Len(cs) : cs[i] = c
    THEN CHOOSE i \in 1..Len(cs) : cs[i] = c
    ELSE 0

ToLowerChar(c) == IF PlaceIn(UpperCase, c) > 0 THEN LowerCase[PlaceIn(UpperCase, c)] ELSE c

\* strings.ToLower, on ASCII strings
RECURSIVE ToLower(_)
ToLower(s) == IF s = "" THEN "" ELSE ToLowerChar(Char(s, 1)) \o ToLower(From(s, 2))

HexDigit ==
    <<"0", "1", "2", "3", "4", "5", "6", "7", "8", "9", "a", "b", "c", "d", "e", "f">>

\* the value of the digit c in base 16, -1 when c is no such digit
HexVal(c) == PlaceIn(HexDigit, ToLowerChar(c)) - 1

\* 1 << 24: the style key reads the three low bytes of the number parsed
Bytes3 == 16777216

\* The three low bytes of the number the hexadecimal digits of s from place
\* i on stand for, after acc; -1 when one of the characters is no digit.
RECURSIVE HexLow(_, _, _)
HexLow(s, i, acc) ==
    IF i > Len(s) THEN acc
    ELSE IF HexVal(Char(s, i)) < 0 THEN -1
    ELSE HexLow(s, i + 1, (acc * 16 + HexVal(Char(s, i))) % Bytes3)

RECURSIVE TrimZeros(_)
TrimZeros(s) == IF Char(s, 1) = "0" THEN TrimZeros(From(s, 2)) ELSE s

\* the number of the digits t (no leading zero) fits in 64 bits with its sign
Fits64(t, neg) ==
    \/ Len(t) < 16
    \/ Len(t) = 16 /\ (HexVal(Char(t, 1)) < 8 \/ (neg /\ t = "8000000000000000"))

ParsedInt(digits, neg, low) ==
    IF digits = "" \/ low < 0 \/ ~Fits64(TrimZeros(digits), neg)
    THEN [ok |-> FALSE, v |-> 0]
    ELSE [ok |-> TRUE, v |-> IF neg THEN (Bytes3 - low) % Bytes3 ELSE low]

ParseIntSigned(digits, neg) == ParsedInt(digits, neg, HexLow(digits, 1, 0))

\* strconv.ParseInt(s, 16, 64): ok is err == nil, v the three low bytes of
\* the number (in two's complement)
ParseInt(s) ==
    IF Char(s, 1) \in {"+", "-"}
    THEN ParseIntSigned(From(s, 2), Char(s, 1) = "-")
    ELSE ParseIntSigned(s, FALSE)

\* HTML color names and their RGB codes
htmlColorRGB ==
    <<<<"aliceblue", "F0F8FF">>, <<"antiquewhite", "FAEBD7">>,
      <<"aqua", "00FFFF">>, <<"aquamarine", "7FFFD4">>,
      <<"azure", "F0FFFF">>, <<"beige", "F5F5DC">>, <<"bisque", "FFE4C4">>,
      <<"black", "000000">>, <<"blanchedalmond", "FFEBCD">>,
      <<"blue", "0000FF">>, <<"blueviolet", "8A2BE2">>,
      <<"brown", "A52A2A">>, <<"burlywood", "DEB887">>,
      <<"cadetblue", "5F9EA0">>, <<"chartreuse", "7FFF00">>,
      <<"chocolate", "D2691E">>, <<"coral", "FF7F50">>,
      <<"cornflowerblue", "6495ED">>, <<"cornsilk", "FFF8DC">>,
      <<"crimson", "DC143C">>, <<"cyan", "00FFFF">>,
      <<"darkblue", "00008B">>, <<"darkcyan", "008B8B">>,
      <<"darkgoldenrod", "B8860B">>, <<"darkgray", "A9A9A9">>,
      <<"darkgrey", "A9A9A9">>, <<"darkgreen", "006400">>,
      <<"darkkhaki", "BDB76B">>, <<"darkmagenta", "8B008B">>,
      <<"darkolivegreen", "556B2F">>, <<"darkorange", "FF8C00">>,
      <<"darkorchid", "9932CC">>, <<"darkred", "8B0000">>,
      <<"darksalmon", "E9967A">>, <<"darkseagreen", "8FBC8F">>,
      <<"darkslateblue", "483D8B">>, <<"darkslategray", "2F4F4F">>,
      <<"darkslategrey", "2F4F4F">>, <<"darkturquoise", "00CED1">>,
      <<"darkviolet", "9400D3">>, <<"deeppink", "FF1493">>,
      <<"deepskyblue", "00BFFF">>, <<"dimgray", "696969">>,
      <<"dimgrey", "696969">>, <<"dodgerblue", "1E90FF">>,
      <<"firebrick", "B22222">>, <<"floralwhite", "FFFAF0">>,
      <<"forestgreen", "228B22">>, <<"fuchsia", "FF00FF">>,
      <<"gainsboro", "DCDCDC">>, <<"ghostwhite", "F8F8FF">>,
      <<"gold", "FFD700">>, <<"goldenrod", "DAA520">>, <<"gray", "808080">>,
      <<"grey", "808080">>, <<"green", "008000">>,
      <<"greenyellow", "ADFF2F">>, <<"honeydew", "F0FFF0">>,
      <<"hotpink", "FF69B4">>, <<"indianred", "CD5C5C">>,
      <<"indigo", "4B0082">>, <<"ivory", "FFFFF0">>, <<"khaki", "F0E68C">>,
      <<"lavender", "E6E6FA">>, <<"lavenderblush", "FFF0F5">>,
      <<"lawngreen", "7CFC00">>, <<"lemonchiffon", "FFFACD">>,
      <<"lightblue", "ADD8E6">>, <<"lightcoral", "F08080">>,
      <<"lightcyan", "E0FFFF">>, <<"lightgoldenrodyellow", "FAFAD2">>,
      <<"lightgray", "D3D3D3">>, <<"lightgrey", "D3D3D3">>,
      <<"lightgreen", "90EE90">>, <<"lightpink", "FFB6C1">>,
      <<"lightsalmon", "FFA07A">>, <<"lightseagreen", "20B2AA">>,
      <<"lightskyBlue", "87CEFA">>, <<"lightslategray", "778899">>,
      <<"lightslategrey", "778899">>, <<"lightsteelBlue", "B0C4DE">>,
      <<"lightyellow", "FFFFE0">>, <<"lime", "00FF00">>,
      <<"limegreen", "32CD32">>, <<"linen", "FAF0E6">>,
      <<"magenta", "FF00FF">>, <<"maroon", "800000">>,
      <<"mediumaquamarine", "66CDAA">>, <<"mediumblue", "0000CD">>,
      <<"mediumorchid", "BA55D3">>, <<"mediumpurple", "9370DB">>,
      <<"mediumseagreen", "3CB371">>, <<"mediumslateblue", "7B68EE">>,
      <<"mediumspringgreen", "00FA9A">>, <<"mediumturquoise", "48D1CC">>,
      <<"mediumvioletred", "C71585">>, <<"midnightblue", "191970">>,
      <<"mintcream", "F5FFFA">>, <<"mistyrose", "FFE4E1">>,
      <<"moccasin", "FFE4B5">>, <<"navajowhite", "FFDEAD">>,
      <<"navy", "000080">>, <<"oldlace", "FDF5E6">>, <<"olive", "808000">>,
      <<"olivedrab", "6B8E23">>, <<"orange", "FFA500">>,
      <<"orangered", "FF4500">>, <<"orchid", "DA70D6">>,
      <<"palegoldenrod", "EEE8AA">>, <<"palegreen", "98FB98">>,
      <<"paleturquoise", "AFEEEE">>, <<"palevioletred", "DB7093">>,
      <<"papayawhip", "FFEFD5">>, <<"peachpuff", "FFDAB9">>,
      <<"peru", "CD853F">>, <<"pink", "FFC0CB">>, <<"plum", "DDA0DD">>,
      <<"powderblue", "B0E0E6">>, <<"purple", "800080">>,
      <<"rebeccapurple", "663399">>, <<"red", "FF0000">>,
      <<"rosybrown", "BC8F8F">>, <<"royalblue", "4169E1">>,
      <<"saddlebrown", "8B4513">>, <<"salmon", "FA8072">>,
      <<"sandybrown", "F4A460">>, <<"seagreen", "2E8B57">>,
      <<"seashell", "FFF5EE">>, <<"sienna", "A0522D">>,
      <<"silver", "C0C0C0">>, <<"skyblue", "87CEEB">>,
      <<"slateblue", "6A5ACD">>, <<"slategray", "708090">>,
      <<"slategrey", "708090">>, <<"snow", "FFFAFA">>,
      <<"springgreen", "00FF7F">>, <<"steelblue", "4682B4">>,
      <<"tan", "D2B48C">>, <<"teal", "008080">>, <<"thistle", "D8BFD8">>,
      <<"tomato", "FF6347">>, <<"turquoise", "40E0D0">>,
      <<"violet", "EE82EE">>, <<"wheat", "F5DEB3">>, <<"white", "FFFFFF">>,
      <<"whitesmoke", "F5F5F5">>, <<"yellow", "FFFF00">>,
      <<"yellowgreen", "9ACD32">>>>

\* htmlColorRGB[name]: "" when the map has no such key
htmlColorRGBAt(name) ==
    IF \E i \in 1..Len(htmlColorRGB) : htmlColorRGB[i][1] = name
    THEN htmlColorRGB[CHOOSE i \in 1..Len(htmlColorRGB) : htmlColorRGB[i][1] = name][2]
    ELSE ""

\* k.Color = (v & 0xff0000) >> 16; k.Color |= v & 0x00ff00;
\* k.Color |= v & 0x0000ff << 16, where the last is (v & 0x0000ff) << 16
SwitchBytes(v) ==
    (Quot(v, 65536) % 256) + (Quot(v, 256) % 256) * 256 + (v % 256) * 65536

\* 0xefefef, light gray
DefaultColor == 15724527

\* The loop of keyFromSub on the color string: the color it assigns and the
\* number of iterations it has made, iters being the iterations before this
\* one.
RECURSIVE ColorRun(_, _)
\* A faulty variant of the lookup below: a name the table does not have is
\* tried again without its first byte.
ColorHexRetry(color, n, iters) ==
    IF n.ok THEN [Color |-> SwitchBytes(n.v), Iters |-> iters]
    ELSE IF htmlColorRGBAt(ToLower(color)) = "" THEN ColorRun(From(color, 2), iters)
    ELSE ColorRun(htmlColorRGBAt(ToLower(color)), iters)

ColorHex(color, n, iters) ==
    IF n.ok THEN [Color |-> SwitchBytes(n.v), Iters |-> iters]
    ELSE ColorRun(htmlColorRGBAt(ToLower(color)), iters)

ColorRun(color, iters) ==
    IF color = "" THEN [Color |-> DefaultColor, Iters |-> iters + 1]
    ELSE IF Char(color, 1) = "#"
    THEN ColorHex(From(color, 2), ParseInt(From(color, 2)), iters + 1)
    ELSE ColorHex(color, ParseInt(color), iters + 1)

ColorLoop(color) == ColorRun(color, 0).Color

\* modelPosToSsaPos[pos]: 0 when the map has no such key
modelPosToSsaPos(pos) ==
    CASE pos = TopLeft -> 5 [] pos = Top -> 6 [] pos = TopRight -> 7
      [] pos = Left -> 9 [] pos = Center -> 10 [] pos = Right -> 11
      [] pos = BottomLeft -> 1 [] pos = Bottom -> 2 [] pos = BottomRight -> 3
      [] OTHER -> 0

keyFromSub(s) ==
    [Pos |-> modelPosToSsaPos(IF s.Pos = PosNotSpecified THEN Bottom ELSE s.Pos),
     Color |-> ColorLoop(s.Color)]

\* The color strings of the model: every name of the table as it is written
\* there and in upper case, names in mixed case, hexadecimal forms with and
\* without '#', with a sign, short and long, and strings that are neither.
ToUpperChar(c) == IF PlaceIn(LowerCase, c) > 0 THEN UpperCase[PlaceIn(LowerCase, c)] ELSE c

RECURSIVE ToUpper(_)
ToUpper(s) == IF s = "" THEN "" ELSE ToUpperChar(Char(s, 1)) \o ToUpper(From(s, 2))

ColorInputs ==
    {htmlColorRGB[i][1] : i \in 1..Len(htmlColorRGB)}
    \cup {ToUpper(htmlColorRGB[i][1]) : i \in 1..Len(htmlColorRGB)}
    \cup {"", "#", "Red", "#red", "lightskyblue", "lightsteelblue", "LightSkyBlue",
          "#ff0000", "ff0000", "FF0000", "#00FF7f", "0000ff", "123456", "12",
          "+12", "-1", "1234567", "0x10", "ff00ff00ff00ff00ff",
          "7fffffffffffffff", "8000000000000000", "-8000000000000000",
          "junk", "red ", "#junk"}

PosInputs ==
    {PosNotSpecified, BottomLeft, Bottom, BottomRight, Left, Center, Right,
     TopLeft, Top, TopRight}

\* a subtitle with a position and a color
ColorNewSub ==
    /\ heap = <<>>
    /\ \E pos \in PosInputs : \E color \in ColorInputs :
         heap' = <<[NewSubtitle EXCEPT !.Pos = pos, !.Color = color]>>
    /\ UNCHANGED <<sp1, sp2, donor, out, fault, err, hist, pre, exec, wr, key>>

\* k := keyFromSub(s)
ColorKeyFromSub ==
    /\ heap # <<>>
    /\ ~key.done
    /\ \E k \in {keyFromSub(heap[1])} :
         key' = [done |-> TRUE, Pos |-> k.Pos, Color |-> k.Color,
                 Iters |-> ColorRun(heap[1].Color, 0).Iters]
    /\ UNCHANGED <<heap, sp1, sp2, donor, out, fault, err, hist, pre, exec, wr>>

ColorNext == ColorNewSub \/ ColorKeyFromSub

ColorSpec == Init /\ [][ColorNext]_vars

(***************************************************************************)
(* The writer utility on a sink that can fail, and the two codecs on it.   *)
(***************************************************************************)
HomePage == "https://srt-gears.appspot.com/"

Version == "1.0"

\* w.w.Write: the sink f refuses the write number n
Refuses(f, n) == f.at > 0 /\ (n = f.at \/ (f.stuck /\ n > f.at))

\* _, w.err = fmt.Fprint(w.w, a...): one Write of the text a to the sink;
\* the error of the write number n is n, nil is 0
Fprint(f, w, a) ==
    [w EXCEPT !.log = Append(@, [a |-> a, ok |-> ~Refuses(f, Len(w.log) + 1)]),
              !.err = IF Refuses(f, Len(w.log) + 1) THEN Len(w.log) + 1 ELSE 0]

\* A faulty variant of pr: the text is printed whatever w.err is.
prAlways(f, w, a) == Fprint(f, w, a)

pr(f, w, a) == IF w.err = 0 THEN Fprint(f, w, a) ELSE w

prn(f, w, a) == pr(f, pr(f, w, a), newLine)

prf(f, w, a) == IF w.err = 0 THEN Fprint(f, w, a) ELSE w

\* the calls a codec makes on its writer, with the text of each
Pr(a) == [k |-> "pr", a |-> a]

Prn(a) == [k |-> "prn", a |-> a]

Prf(a) == [k |-> "prf", a |-> a]

Do(f, w, c) ==
    CASE c.k = "pr" -> pr(f, w, c.a)
      [] c.k = "prn" -> prn(f, w, c.a)
      [] c.k = "prf" -> prf(f, w, c.a)

RECURSIVE DoAll(_, _, _, _)
DoAll(f, w, cs, i) ==
    IF i > Len(cs) THEN w ELSE DoAll(f, Do(f, w, cs[i]), cs, i + 1)

\* WriteSrtTo: the calls of the text lines of s, from line i on
RECURSIVE SrtLineCalls(_, _)
SrtLineCalls(s, i) ==
    IF i > Len(s.Lines) THEN <<>>
    ELSE (IF i = 1 /\ s.Pos # PosNotSpecified
          THEN <<Prf("{\\an" \o modelPosToSrtPos(s.Pos) \o "}")>> ELSE <<>>)
         \o (IF s.Color # ""
             THEN (IF i = 1 THEN <<Prf("<font color=\"" \o s.Color \o "\">")>> ELSE <<>>)
                  \o <<Pr(s.Lines[i])>>
                  \o (IF i = Len(s.Lines) THEN <<Pr("</font>")>> ELSE <<>>)
                  \o <<Prn("")>>
             ELSE <<Prn(s.Lines[i])>>)
         \o SrtLineCalls(s, i + 1)

\* WriteSrtTo: the calls of the record of s, the i-th of the pack
SrtSubCalls(s, i) ==
    <<Prn(ToString(i)), Prf(printTime(s.TimeIn)), Pr(" --> "),
      Prf(printTime(s.TimeOut)), Prn("")>>
    \o SrtLineCalls(s, 1) \o <<Prn("")>>

\* for i, s := range sp.Subs { if wr.err != nil { break } ... }
RECURSIVE SrtLoop(_, _, _, _, _)
SrtLoop(f, w, h, subs, i) ==
    IF i > Len(subs) \/ w.err # 0 THEN w
    ELSE SrtLoop(f, DoAll(f, w, SrtSubCalls(h[subs[i]], i), 1), h, subs, i + 1)

\* WriteSrtTo on the sink f: the writer at the return, wr.err the result
WriteSrtToSink(f, h, subs) ==
    SrtLoop(f, [NewWriter EXCEPT !.called = TRUE], h, subs, 1)

\* WriteSsaTo: the Script Info section and the head of the styles section
SsaHead ==
    <<Prn("[Script Info]"),
      Prn("; This is a Sub Station Alpha v4 script."),
      Prn("; " \o HomePage),
      Prn("Title: "),
      Prn("Script Updated By: srtgears version " \o Version),
      Prn("ScriptType: v4.00"),
      Prn("Collisions: Normal"),
      Prn("PlayResY: 600"),
      Prn("PlayDepth: 0"),
      Prn("Timer: 100,0000"),
      Prn(""),
      Prn("[V4 Styles]"),
      Prn("Format: Name, Fontname, Fontsize, PrimaryColour, SecondaryColour, TertiaryColour, BackColour, Bold, Italic, BorderStyle, Outline, Shadow, Alignment, MarginL, MarginR, MarginV, AlphaLevel, Encoding")>>

\* A faulty variant of the test below: every key is a new style.
NewStyleAlways(styles, k) == Append(styles, k)

\* if _, ok := stylesMap[styleKeys[i]]; !ok { styles = append(styles, styleKeys[i]) }
NewStyle(styles, k) == IF PlaceIn(styles, k) > 0 THEN styles ELSE Append(styles, k)

\* the unique style keys of the slots from i on, after styles, in the order
\* they are met: stylesMap[k] is the place of k in styles
RECURSIVE StylesFrom(_, _, _, _)
StylesFrom(h, subs, i, styles) ==
    IF i > Len(subs) THEN styles
    ELSE StylesFrom(h, subs, i + 1, NewStyle(styles, keyFromSub(h[subs[i]])))

\* wr.prf("Style: %s, Arial,28,%d,%d,%d,-2147483640,-1,0,1,1,2,%d,30,30,30,0,0", ...)
StyleLine(name, v) ==
    "Style: " \o name \o ", Arial,28," \o ToString(v.Color) \o ","
    \o ToString(v.Color) \o "," \o ToString(v.Color)
    \o ",-2147483640,-1,0,1,1,2," \o ToString(v.Pos) \o ",30,30,30,0,0"

RECURSIVE StyleCalls(_, _)
StyleCalls(styles, i) ==
    IF i > Len(styles) THEN <<>>
    ELSE <<Prf(StyleLine(ToString(i), styles[i])), Prn("")>> \o StyleCalls(styles, i + 1)

SsaEventsHead ==
    <<Prn(""),
      Prn("[Events]"),
      Prn("Format: Marked, Start, End, Style, Name, MarginL, MarginR, MarginV, Effect, Text")>>

\* wr.prf("%d:%02d:%02d.%02d", hour, min, sec, ms/10)
ssaPrintTime(t) ==
    FmtD(Quot(t, Hour), 1) \o ":" \o FmtD(Quot(Rem(t, Hour), Minute), 2) \o ":"
    \o FmtD(Quot(Rem(t, Minute), Second), 2) \o "."
    \o FmtD(Quot(Quot(Rem(t, Second), Millisecond), 10), 2)

RECURSIVE SsaLineCalls(_, _)
SsaLineCalls(s, i) ==
    IF i > Len(s.Lines) THEN <<>>
    ELSE <<Pr(s.Lines[i])>>
         \o (IF i # Len(s.Lines) THEN <<Pr("\\n")>> ELSE <<>>)
         \o SsaLineCalls(s, i + 1)

\* WriteSsaTo: the calls of the Dialogue line of s, its style named name
DialogueCalls(s, name) ==
    <<Pr("Dialogue: Marked=0,"), Prf(ssaPrintTime(s.TimeIn)), Pr(","),
      Prf(ssaPrintTime(s.TimeOut)), Pr("," \o name \o ",NA,0000,0000,0000,,")>>
    \o SsaLineCalls(s, 1) \o <<Prn("")>>

\* for i, s := range sp.Subs { if wr.err != nil { break } ... }
RECURSIVE SsaLoop(_, _, _, _, _, _)
SsaLoop(f, w, h, subs, i, styles) ==
    IF i > Len(subs) \/ w.err # 0 THEN w
    ELSE SsaLoop(f, DoAll(f, w, DialogueCalls(h[subs[i]],
                     ToString(PlaceIn(styles, keyFromSub(h[subs[i]])))), 1),
                 h, subs, i + 1, styles)

WriteSsaStyled(f, h, subs, styles) ==
    SsaLoop(f, DoAll(f, [NewWriter EXCEPT !.called = TRUE],
                     SsaHead \o StyleCalls(styles, 1) \o SsaEventsHead, 1),
            h, subs, 1, styles)

\* WriteSsaTo on the sink f: the writer at the return, wr.err the result
WriteSsaTo(f, h, subs) == WriteSsaStyled(f, h, subs, StylesFrom(h, subs, 1, <<>>))

\* The sinks of the model, and the files the pack written is read from
Failures == {[at |-> n, stuck |-> b] : n \in 1..MaxFail, b \in BOOLEAN}

SinkInputs == Inputs1 \cup Inputs2

SinkReadSrt ==
    /\ hist = <<>>
    /\ \E text \in SinkInputs : \E r \in {ReadSrtFrom(text)} :
         /\ heap' = r.h
         /\ sp1' = Pack(r.subs)
         /\ DidRead(1, text, r.err)
    /\ UNCHANGED <<sp2, donor, out, fault>>

\* the sink the pack will be written to is one that fails
SinkCreate ==
    /\ ~sp1.nil
    /\ err = ""
    /\ wr.failing = NoFailure /\ ~wr.srt.called /\ ~wr.ssa.called
    /\ \E f \in Failures : wr' = [wr EXCEPT !.failing = f]
    /\ UNCHANGED <<heap, sp1, sp2, donor, out, fault, err, hist, pre, exec, key>>

\* err = WriteSrtTo(w, sp1)
SinkWriteSrt ==
    /\ ~sp1.nil
    /\ err = ""
    /\ ~wr.srt.called
    /\ wr' = [wr EXCEPT !.srt = WriteSrtToSink(wr.failing, heap, sp1.Subs)]
    /\ UNCHANGED <<heap, sp1, sp2, donor, out, fault, err, hist, pre, exec, key>>

\* err = WriteSsaTo(w, sp1)
SinkWriteSsa ==
    /\ ~sp1.nil
    /\ err = ""
    /\ ~wr.ssa.called
    /\ wr' = [wr EXCEPT !.ssa = WriteSsaTo(wr.failing, heap, sp1.Subs)]
    /\ UNCHANGED <<heap, sp1, sp2, donor, out, fault, err, hist, pre, exec, key>>

SinkNext == SinkReadSrt \/ SinkCreate \/ SinkWriteSrt \/ SinkWriteSsa

SinkSpec == Init /\ [][SinkNext]_vars

(***************************************************************************)
(* The SubRip reader on malformed files: files of at most MaxLines lines,  *)
(* each line one of LineKinds, with and without the last end of line, with *)
(* and without a byte order mark, and files with a line that fills the     *)
(* buffer of the scanner.                                                  *)
(***************************************************************************)
MaxLines == 4

\* a blank line, a sequence number, a text, a text with a position and a
\* color, a timestamp line, the permissive timestamp line of the comment of
\* timestampsPattern, and a timestamp line the pattern does not match
LineKinds ==
    {"", "1", "Hi", "{\\an8}<font color=\"red\">Yo</font>",
     "00:00:00,002 --> 00:00:00,004",
     "dY 00:02:20.476--->   00:02:22,501X Y",
     "00:00:01,000 --> 00:00:02"}

RECURSIVE JoinLF(_, _)
JoinLF(lines, i) ==
    IF i > Len(lines) THEN "" ELSE lines[i] \o "\n" \o JoinLF(lines, i + 1)

\* the text without its last byte
Chop(text) == SubSeq(text, 1, Len(text) - 1)

\* the files of at most max lines of LineKinds
ShortFiles(max) ==
    UNION {{JoinLF(lines, 1), Chop(JoinLF(lines, 1))} :
             lines \in UNION {[1..n -> LineKinds] : n \in 0..max}}

\* the files of at most max lines with a byte order mark at the head of the
\* first line, and at the head of the second line after a blank one
MarkedFiles(max) ==
    {mark \o text : mark \in {BOM, "\n" \o BOM}, text \in ShortFiles(max - 1)}

\* the files with a line of n - 1 bytes, the longest the buffer of n bytes
\* takes, or with a line of n bytes: alone, after a byte order mark, where
\* the timestamps are expected, as the text of a record, after a text line
\* and after a whole record
LongFiles(n) ==
    {Fill(n), Fill(n - 1) \o "\n", Fill(n - 1), Fill(n - 1) \o "\r\n",
     Fill(n - 2) \o "\r\n", BOM \o Fill(n - 3), BOM \o Fill(n - 4) \o "\n",
     "1\n" \o Fill(n) \o "\nHi\n",
     "1\n00:00:00,002 --> 00:00:00,004\n" \o Fill(n) \o "\n",
     "1\n00:00:00,002 --> 00:00:00,004\n" \o Fill(n - 1) \o "\n",
     "1\n00:00:00,002 --> 00:00:00,004\nHi\n" \o Fill(n) \o "\nHi\n",
     "1\n00:00:00,002 --> 00:00:00,004\nHi\n\n" \o Fill(n)}

\* the record WriteSrtTo writes for a subtitle shown for a second from 100
\* hours on: printTime gives the hours three digits
HundredHours == "1\r\n100:00:00.000 --> 100:00:01.000\r\nHi\r\n\r\n"

ParseInputs(max) ==
    ShortFiles(max) \cup MarkedFiles(max) \cup LongFiles(MaxScanTokenSize)
        \cup {HundredHours}

\* sp, err := srtgears.ReadSrtFrom(r) on such a file
ParseReadSrt ==
    /\ hist = <<>>
    /\ \E text \in ParseInputs(MaxLines) : \E r \in {ReadSrtFrom(text)} :
         /\ heap' = r.h
         /\ sp1' = Pack(r.subs)
         /\ DidRead(1, text, r.err)
    /\ UNCHANGED <<sp2, donor, out, fault>>

ParseNext == ParseReadSrt

ParseSpec == Init /\ [][ParseNext]_vars

(***************************************************************************)
(* The SubRip codec on packs the caller builds: a first subtitle of any    *)
(* position and color, and at most MaxSubs - 1 subtitles after it; and     *)
(* packs with a line that fills the buffer of the scanner.                 *)
(***************************************************************************)
MaxSubs == 2

RoundTimes ==
    {<<2 * Millisecond, 4 * Millisecond>>,
     <<Hour + 2 * Minute + 3 * Second + 4 * Millisecond,
       Hour + 2 * Minute + 4 * Second + 5 * Millisecond>>}

\* no color, a name, and a hex triplet with and without '#'
RoundColors == {"", "red", "#ff0000", "00FF7f"}

\* one line, two lines, and a line followed by an empty one
RoundLines == {<<"Hi">>, <<"- a", " b ">>, <<"a", "">>}

\* the subtitles that follow the first one: d is the time from its in-cue
\* to theirs (0: they start together), dur the time they are displayed
Followers ==
    {[d |-> 0, dur |-> 0, Pos |-> BottomLeft, Color |-> "", Lines |-> <<"x">>],
     [d |-> Millisecond, dur |-> 2 * Millisecond, Pos |-> PosNotSpecified,
      Color |-> "#00FF7f", Lines |-> <<"y", "z">>],
     [d |-> 2 * Millisecond, dur |-> Millisecond, Pos |-> Center,
      Color |-> "blue", Lines |-> <<"- q">>]}

FollowerAt(f, in) ==
    [TimeIn |-> in + f.d, TimeOut |-> in + f.d + f.dur, Lines |-> f.Lines,
     Pos |-> f.Pos, Color |-> f.Color]

\* the lists of at most max - 1 followers, ordered by in-cue
FollowerLists(max) ==
    {fs \in UNION {[1..n -> Followers] : n \in 0..(max - 1)} :
        \A i \in 1..(Len(fs) - 1) : fs[i].d <= fs[i + 1].d}

\* the subtitles of the packs of at most max subtitles
ShortPacks(max) ==
    {<<[TimeIn |-> times[1], TimeOut |-> times[2], Lines |-> lines,
        Pos |-> pos, Color |-> color]>>
     \o [i \in 1..Len(fs) |-> FollowerAt(fs[i], times[1])] :
        times \in RoundTimes, pos \in PosInputs, color \in RoundColors,
        lines \in RoundLines, fs \in FollowerLists(max)}

\* a subtitle with one line of n bytes
LongSub(n, pos) ==
    [TimeIn |-> 2 * Millisecond, TimeOut |-> 4 * Millisecond,
     Lines |-> <<Fill(n)>>, Pos |-> pos, Color |-> ""]

\* the packs whose first subtitle has a line of n - 2 bytes, which is with
\* its \r the longest the buffer of n bytes takes, without and with a
\* position in front of it, or a line of n - 1 bytes; alone and followed by
\* another subtitle
LongPacks(n) ==
    {<<LongSub(n - 2, PosNotSpecified)>>, <<LongSub(n - 2, Top)>>,
     <<LongSub(n - 1, PosNotSpecified)>>,
     <<LongSub(n - 1, PosNotSpecified),
       FollowerAt([d |-> Millisecond, dur |-> Millisecond, Pos |-> Center,
                   Color |-> "blue", Lines |-> <<"- q">>], 2 * Millisecond)>>}

RoundPacks(max) == ShortPacks(max) \cup LongPacks(MaxScanTokenSize)

\* sp := &SubsPack{Subs: []*Subtitle{...}}
RoundNewPack ==
    /\ hist = <<>>
    /\ \E h \in RoundPacks(MaxSubs) :
         /\ heap' = h
         /\ sp1' = Pack([i \in 1..Len(h) |-> i])
    /\ Did("NewSubsPack", 0, NoFactor, "")
    /\ UNCHANGED <<sp2, donor, out, fault>>

\* WriteSrtTo(w, sp) into a buffer
RoundWriteSrt ==
    /\ hist # <<>> /\ Last.op = "NewSubsPack"
    /\ out' = [out EXCEPT !.written = TRUE, !.text = WriteSrtTo(heap, sp1.Subs)]
    /\ Did("WriteSrtTo", 0, NoFactor, "")
    /\ UNCHANGED <<heap, sp1, sp2, donor, fault>>

\* sp2, err := ReadSrtFrom(the buffer): the addresses of its subtitles
\* follow those of the pack written
RoundReadSrt ==
    /\ hist # <<>> /\ Last.op = "WriteSrtTo"
    /\ \E r \in {ReadSrtFrom(out.text)} :
         /\ heap' = heap \o r.h
         /\ sp2' = Pack([i \in 1..Len(r.subs) |-> Len(heap) + r.subs[i]])
         /\ DidRead(2, out.text, r.err)
    /\ UNCHANGED <<sp1, donor, out, fault>>

RoundNext == RoundNewPack \/ RoundWriteSrt \/ RoundReadSrt

RoundSpec == Init /\ [][RoundNext]_vars

(***************************************************************************)
(* The claims of the specification, as properties of the last call made.   *)
(***************************************************************************)
\* the last call made is a call of op
After(op) == hist # <<>> /\ Last.op = op

\* the addresses a slice lists, and how often it lists address a
Addrs(subs) == {subs[i] : i \in 1..Len(subs)}

Count(subs, a) == Cardinality({i \in 1..Len(subs) : subs[i] = a})

\* two packs share no subtitle and list none twice
Apart(subs, subs2) ==
    /\ Addrs(subs) \cap Addrs(subs2) = {}
    /\ \A a \in Addrs(subs) : Count(subs, a) = 1
    /\ \A a \in Addrs(subs2) : Count(subs2, a) = 1

\* entries[i].timeIn <= entries[i+1].timeIn for every valid i
InOrder(h, subs) ==
    \A i \in 1..(Len(subs) - 1) : h[subs[i]].TimeIn <= h[subs[i + 1]].TimeIn

\* C1 (Merge positions): after A.Merge(B), for packs A and B that share no
\* subtitle, pack A holds every entry of A and every entry of B, each entry
\* that belonged to A has pos = unspecified and each entry that belonged to
\* B has pos = Top.
C1_MergePositions ==
    (After("Merge") /\ Apart(pre.sp1.Subs, pre.sp2.Subs)) =>
        /\ \A a \in 1..Len(heap) :
             Count(sp1.Subs, a) = Count(pre.sp1.Subs, a) + Count(pre.sp2.Subs, a)
        /\ \A a \in Addrs(pre.sp1.Subs) : heap[a].Pos = PosNotSpecified
        /\ \A a \in Addrs(pre.sp2.Subs) : heap[a].Pos = Top

\* C1, what the program does instead: an entry of A is at Top and an entry
\* of B is where it was, not at Top.
C1_Diverges ==
    /\ After("Merge") /\ Apart(pre.sp1.Subs, pre.sp2.Subs)
    /\ \E a \in Addrs(pre.sp1.Subs) : heap[a].Pos = Top
    /\ \E b \in Addrs(pre.sp2.Subs) : heap[b].Pos = pre.heap[b].Pos /\ heap[b].Pos # Top

\* the pack a call of ReadSrtFrom, Concatenate or Merge has produced
Produced == IF Last.op = "ReadSrtFrom" /\ Last.n = 2 THEN sp2 ELSE sp1

\* C2 (Sort invariant): immediately after ReadSrtFrom, after Concatenate and
\* after Merge, the entries of the resulting pack are in the order of their
\* timeIn, also for inputs whose records are out of order or overlap.
C2_SortInvariant ==
    (hist # <<>> /\ Last.op \in {"ReadSrtFrom", "Concatenate", "Merge"}) =>
        InOrder(heap, Produced.Subs)

\* C2, its case: a file whose records are out of order has been read, and
\* the pack lists them in another order than the file.
C2_Witness ==
    /\ After("ReadSrtFrom") /\ Last.n = 1
    /\ \E i \in 1..Len(sp1.Subs) : sp1.Subs[i] # i
    /\ \E i, j \in 1..Len(heap) : i < j /\ heap[i].TimeIn > heap[j].TimeIn

\* the program has read its files, written the primary pack as it was read
\* and read what it wrote
RoundTrip ==
    /\ Len(hist) >= 3
    /\ hist[Len(hist) - 1].op = "WriteSrtTo"
    /\ Last.op = "ReadSrtFrom"
    /\ \A i \in 1..(Len(hist) - 2) : hist[i].op = "ReadSrtFrom"

\* the records of the file first read were ordered by start time
WellFormed == pre.sp1.Subs = [i \in 1..Len(pre.sp1.Subs) |-> i]

\* C3 (SubRip round trip): for a well-formed input, parsing, writing and
\* parsing again yields the same number of entries, with the same timeIn,
\* timeOut, text lines, position and color for every entry.
C3_RoundTrip ==
    (RoundTrip /\ WellFormed) =>
        /\ Len(sp1.Subs) = Len(pre.sp1.Subs)
        /\ \A i \in 1..Len(sp1.Subs) : heap[sp1.Subs[i]] = pre.heap[pre.sp1.Subs[i]]

\* C3, what the program does instead: the entries read back have the
\* timestamps, position and color of the first parse but another text.
C3_Diverges ==
    /\ RoundTrip /\ WellFormed
    /\ Len(sp1.Subs) = Len(pre.sp1.Subs)
    /\ \E i \in 1..Len(sp1.Subs) :
         /\ heap[sp1.Subs[i]].Lines # pre.heap[pre.sp1.Subs[i]].Lines
         /\ [heap[sp1.Subs[i]] EXCEPT !.Lines = <<>>]
              = [pre.heap[pre.sp1.Subs[i]] EXCEPT !.Lines = <<>>]

\* HH:MM:SS,mmm: two-digit fields, a comma before the three millisecond
\* digits
ClaimedTime(t) ==
    FmtD(Quot(t, Hour), 2) \o ":" \o FmtD(Quot(Rem(t, Hour), Minute), 2) \o ":"
    \o FmtD(Quot(Rem(t, Minute), Second), 2) \o ","
    \o FmtD(Quot(Rem(t, Second), Millisecond), 3)

\* the record of the i-th entry: a line holding i, the timestamps line, the
\* text lines, an empty line, each ended by CR LF
ClaimedRecord(s, i) ==
    ToString(i) \o "\r\n"
    \o ClaimedTime(s.TimeIn) \o " --> " \o ClaimedTime(s.TimeOut) \o "\r\n"
    \o writeLines(s, 1)
    \o "\r\n"

RECURSIVE ClaimedRecords(_, _, _)
ClaimedRecords(h, subs, i) ==
    IF i > Len(subs) THEN ""
    ELSE ClaimedRecord(h[subs[i]], i) \o ClaimedRecords(h, subs, i + 1)

\* the timestamps of the pack fit HH:MM:SS,mmm
Printable(h, subs) ==
    \A i \in 1..Len(subs) :
        /\ 0 <= h[subs[i]].TimeIn /\ Quot(h[subs[i]].TimeIn, Hour) < 100
        /\ 0 <= h[subs[i]].TimeOut /\ Quot(h[subs[i]].TimeOut, Hour) < 100

\* C4 (SubRip record format): WriteSrtTo emits, for the i-th entry
\* (0-based), a line holding i+1, a line HH:MM:SS,mmm --> HH:MM:SS,mmm built
\* from timeIn and timeOut, the text lines and an empty line, every line
\* ended by CR LF.
C4_RecordFormat ==
    /\ (After("WriteSrtTo") /\ out.written /\ Printable(heap, sp1.Subs)) =>
            out.text = ClaimedRecords(heap, sp1.Subs, 1)
    /\ (After("WriteSrtTo") /\ out.written2 /\ Printable(heap, sp2.Subs)) =>
            out.text2 = ClaimedRecords(heap, sp2.Subs, 1)

\* C4, what the program does instead: the file of a pack that is not empty
\* is written and holds no comma at all.
C4_Diverges ==
    /\ After("WriteSrtTo") /\ out.written /\ Printable(heap, sp1.Subs)
    /\ Len(sp1.Subs) > 0
    /\ IndexFrom(out.text, ",", 1) = 0
    /\ IndexFrom(out.text, ".", 1) > 0

\* C5 (Scale invariance): after Scale(factor) every entry has the display
\* duration timeOut - timeIn it had before the call, and only timeIn is
\* multiplied by the factor: text, position and color are as they were, an
\* entry the pack lists once has its timeIn multiplied by the factor, and
\* no entry outside of the pack is touched.
C5_ScaleInvariance ==
    After("Scale") =>
        /\ sp1 = pre.sp1 /\ sp2 = pre.sp2
        /\ \A a \in 1..Len(heap) :
             /\ DisplayDuration(heap[a]) = DisplayDuration(pre.heap[a])
             /\ heap[a].Lines = pre.heap[a].Lines
             /\ heap[a].Pos = pre.heap[a].Pos
             /\ heap[a].Color = pre.heap[a].Color
             /\ Count(sp1.Subs, a) = 1 =>
                    heap[a].TimeIn = MulFactor(pre.heap[a].TimeIn, Last.f)
             /\ Count(sp1.Subs, a) = 0 => heap[a] = pre.heap[a]

\* C5, its case: Scale has moved an entry that is displayed for some time.
C5_Witness ==
    /\ After("Scale")
    /\ \E a \in Addrs(sp1.Subs) :
         /\ heap[a].TimeIn # pre.heap[a].TimeIn
         /\ DisplayDuration(pre.heap[a]) > 0

\* C6 (Lengthen non-negativity): after Lengthen(factor), factor >= 0, the
\* timeIn of every entry of the pack is >= 0.
C6_LengthenNonNegative ==
    After("Lengthen") =>
        \A a \in Addrs(sp1.Subs) : heap[a].TimeIn >= 0

\* C6, its case: an entry that started after 0 was lengthened to before 0,
\* and starts at 0.
C6_Witness ==
    /\ After("Lengthen")
    /\ \E a \in Addrs(sp1.Subs) :
         /\ pre.heap[a].TimeIn > 0
         /\ heap[a].TimeIn = 0
         /\ DisplayDuration(heap[a]) > pre.heap[a].TimeIn + pre.heap[a].TimeOut

\* C7 (Split partition completeness): after sp2 = sp.Split(at) every entry
\* of the original pack is in exactly one of sp and sp2, in the order it
\* had, and every entry of sp2 has timeIn >= 0 after the -at shift.
C7_SplitPartition ==
    After("Split") =>
        /\ pre.sp1.Subs = sp1.Subs \o sp2.Subs
        /\ \A a \in Addrs(sp2.Subs) : heap[a].TimeIn >= 0

\* C7, what the program does instead: an entry that started at or after 0
\* and before the cut time is in sp2, with a negative timeIn.
C7_Diverges ==
    /\ After("Split")
    /\ pre.sp1.Subs = sp1.Subs \o sp2.Subs
    /\ \E a \in Addrs(sp2.Subs) :
         /\ 0 <= pre.heap[a].TimeIn /\ pre.heap[a].TimeIn < Last.n
         /\ heap[a].TimeIn < 0

\* C8 (RemoveHI idempotence): applying pack-level RemoveHI to the pack a
\* RemoveHI has left changes nothing: the same entries in the same order,
\* the same lines per entry (and the same outcome of the call).
C8_RemoveHIIdempotent ==
    After("RemoveHI") =>
        /\ RemoveHI(heap, sp1.Subs) = [h |-> heap, subs |-> sp1.Subs, fault |-> fault]
        /\ hist[Len(hist) - 1].op = "RemoveHI" => (heap = pre.heap /\ sp1 = pre.sp1)

\* C8, its case: RemoveHI has been applied twice in a row, and the first
\* call removed a line of an entry that is left and an entry as a whole.
C8_Witness ==
    /\ After("RemoveHI") /\ hist[Len(hist) - 1].op = "RemoveHI"
    /\ ~fault
    /\ Len(sp1.Subs) > 0
    /\ Len(sp1.Subs) < Len(ReadSrtFrom(hist[1].c).subs)
    /\ \E a \in Addrs(sp1.Subs) :
         Len(heap[a].Lines) < Len(ReadSrtFrom(hist[1].c).h[a].Lines)

\* a hearing impaired line: ignoring HTML-like tags, it starts with '[' and
\* ends with ']', or starts with '(' and ends with ')'
ClaimedHI(line, bare) ==
    \/ Char(bare, 1) = "[" /\ Char(bare, Len(bare)) = "]"
    \/ Char(bare, 1) = "(" /\ Char(bare, Len(bare)) = ")"

\* the lines that are not hearing impaired lines, in their order
RECURSIVE ClaimedLines(_)
ClaimedLines(lines) ==
    IF lines = <<>> THEN <<>>
    ELSE (IF ClaimedHI(Head(lines), htmlPatternRemove(Head(lines), 1))
          THEN <<>> ELSE <<Head(lines)>>)
         \o ClaimedLines(Tail(lines))

\* the slots whose entry keeps a line, in their order
RECURSIVE ClaimedSlots(_, _)
ClaimedSlots(h, subs) ==
    IF subs = <<>> THEN <<>>
    ELSE (IF ClaimedLines(h[Head(subs)].Lines) = <<>> THEN <<>> ELSE <<Head(subs)>>)
         \o ClaimedSlots(h, Tail(subs))

\* C9 (RemoveHI deletion): pack-level RemoveHI returns having removed from
\* every entry each hearing impaired line and deleted from the pack exactly
\* the entries whose line list is empty afterwards: no surviving entry has
\* an empty line list, none is skipped, and the survivors keep their order.
C9_RemoveHIDeletion ==
    After("RemoveHI") =>
        /\ ~fault
        /\ sp1.Subs = ClaimedSlots(pre.heap, pre.sp1.Subs)
        /\ \A a \in Addrs(pre.sp1.Subs) : heap[a].Lines = ClaimedLines(pre.heap[a].Lines)
        /\ \A a \in Addrs(sp1.Subs) : heap[a].Lines # <<>>

\* C9, what the program does instead: the call panics on an entry with a
\* line that is empty without its tags, and the pack keeps that entry.
C9_Diverges ==
    /\ After("RemoveHI")
    /\ fault
    /\ \E a \in Addrs(sp1.Subs) :
         \E i \in 1..Len(heap[a].Lines) : htmlPatternRemove(heap[a].Lines[i], 1) = ""

\* C10 (Concatenate result): after A.Concatenate(B, start), for packs that
\* share no subtitle, pack A lists exactly the entries of A and of B,
\* ordered by timeIn; the entries of A are as they were, and every entry of
\* B has timeIn and timeOut increased by start and is otherwise as it was.
C10_ConcatenateResult ==
    (After("Concatenate") /\ Apart(pre.sp1.Subs, pre.sp2.Subs)) =>
        /\ \A a \in 1..Len(heap) :
             Count(sp1.Subs, a) = Count(pre.sp1.Subs, a) + Count(pre.sp2.Subs, a)
        /\ InOrder(heap, sp1.Subs)
        /\ \A a \in Addrs(pre.sp1.Subs) : heap[a] = pre.heap[a]
        /\ \A b \in Addrs(pre.sp2.Subs) :
             /\ heap[b].TimeIn = pre.heap[b].TimeIn + Last.n
             /\ heap[b].TimeOut = pre.heap[b].TimeOut + Last.n
             /\ [heap[b] EXCEPT !.TimeIn = 0, !.TimeOut = 0]
                  = [pre.heap[b] EXCEPT !.TimeIn = 0, !.TimeOut = 0]

\* C10, its case: two packs that are not empty are concatenated at a start
\* after 0, and an entry of B comes before an entry of A.
C10_Witness ==
    /\ After("Concatenate") /\ Apart(pre.sp1.Subs, pre.sp2.Subs)
    /\ Last.n > 0
    /\ Len(pre.sp1.Subs) > 0 /\ Len(pre.sp2.Subs) > 0
    /\ \E i, j \in 1..Len(sp1.Subs) :
         /\ i < j
         /\ sp1.Subs[i] \in Addrs(pre.sp2.Subs)
         /\ sp1.Subs[j] \in Addrs(pre.sp1.Subs)
         /\ heap[sp1.Subs[i]].TimeIn < heap[sp1.Subs[j]].TimeIn

\* GearIt has been called and has ended, by a return or by a panic
Ended == exec.pc \in {"returned", "panicked"}

\* the option was supplied in the arguments
Supplied(name) == \E i \in 1..Len(exec.args) : exec.args[i].name = name

\* the calls GearIt has made on the primary pack
Gears == SelectSeq(hist, LAMBDA c : c.op # "ReadSrtFrom")

\* no transformation was applied: no call was made, the packs and their
\* subtitles are as they were, and Modified is false
Untouched ==
    /\ Gears = <<>>
    /\ heap = pre.heap /\ sp1 = pre.sp1 /\ sp2 = pre.sp2
    /\ ~exec.e.Modified

\* C11 (Executor input validation): GearIt returns an error when Sp1 is
\* absent, and when Sp2 is absent while concatenation or merge is requested;
\* in both cases no transformation is applied, no pack is changed and
\* Modified stays false.
C11_InputValidation ==
    (Ended /\ (pre.sp1.nil \/ (pre.sp2.nil /\ (Supplied("concat") \/ Supplied("merge"))))) =>
        /\ exec.pc = "returned"
        /\ exec.err # ""
        /\ Untouched

\* C11, its case: merge and the removal of HTML are requested on a primary
\* pack with a colored subtitle, no secondary pack is set, and GearIt has
\* returned the error about the second input.
C11_Witness ==
    /\ Ended
    /\ ~pre.sp1.nil /\ pre.sp2.nil
    /\ Supplied("merge") /\ Supplied("removehtml")
    /\ \E a \in Addrs(sp1.Subs) : heap[a].Color # ""
    /\ exec.err = "2nd input file must be specified ('-in2')!"

\* the order the spec gives for the operations of GearIt
FixedOrder ==
    <<"Concatenate", "Merge", "Lengthen", "RemoveControl", "RemoveHI",
      "RemoveHTML", "SetPos", "SetColor", "Scale", "Shift", "Split", "Stats">>

Rank(op) == CHOOSE i \in 1..Len(FixedOrder) : FixedOrder[i] = op

\* every option is supplied once
OptionsOnce ==
    \A i, j \in 1..Len(exec.args) :
        exec.args[i].name = exec.args[j].name => i = j

\* the calls GearIt makes when the same options are supplied in reverse
GearsReversed ==
    GearIt(ProcFlags(NewExecutor, Reverse(exec.args)), pre.heap, pre.sp1, pre.sp2).calls

\* C12 (Executor fixed order): the calls GearIt makes on the primary pack
\* follow the order concatenate, merge, lengthen, remove-control, remove-HI,
\* remove-HTML, set-position, set-color, scale, shift, split, stats, each at
\* most once, and the same calls in the same order are made when the options
\* are supplied in the opposite order.
C12_FixedOrder ==
    Ended =>
        /\ \A i \in 1..Len(Gears) : \E k \in 1..Len(FixedOrder) : FixedOrder[k] = Gears[i].op
        /\ \A i, j \in 1..Len(Gears) : i < j => Rank(Gears[i].op) < Rank(Gears[j].op)
        /\ OptionsOnce => GearsReversed = Gears

\* C12, its case: shiftBy, scale and lengthen were supplied in this order,
\* and GearIt has lengthened, then scaled, then shifted.
C12_Witness ==
    /\ Ended
    /\ Len(exec.args) = 3
    /\ exec.args[1].name = "shiftBy" /\ exec.args[2].name = "scale"
    /\ exec.args[3].name = "lengthen"
    /\ Len(Gears) = 3
    /\ Gears[1].op = "Lengthen" /\ Gears[2].op = "Scale" /\ Gears[3].op = "Shift"

\* a mutating operation ran: GearIt made a call other than Stats
Mutated == \E i \in 1..Len(Gears) : Gears[i].op # "Stats"

OutputMissing == "Output file must be specified ('-out')!"

\* C13 (missing output is an error): GearIt returns an error whenever a
\* mutating operation ran, stats was not requested and Out was not
\* specified; it returns no such error when nothing was modified or when
\* stats was requested.
C13_MissingOutput ==
    Ended =>
        /\ (Mutated /\ ~Supplied("stats") /\ ~Supplied("out")) =>
                (exec.pc = "returned" /\ exec.err # "")
        /\ (~Mutated \/ Supplied("stats")) => exec.err # OutputMissing

\* C13, where the code leaves the claim: the control sequences were removed,
\* neither stats nor an output was requested, and GearIt has ended in the
\* panic of RemoveHI instead of returning an error.
C13_Diverges ==
    /\ Ended
    /\ \E i \in 1..Len(Gears) : Gears[i].op = "RemoveControl"
    /\ ~Supplied("stats") /\ ~Supplied("out")
    /\ exec.pc = "panicked" /\ exec.err = ""

\* C14 (split needs a second output): whenever split is requested and no
\* second output is specified, GearIt returns an error, whatever the other
\* options are.
C14_SplitNeedsOut2 ==
    (Ended /\ Supplied("splitAt") /\ ~Supplied("out2")) =>
        (exec.pc = "returned" /\ exec.err # "")

\* C14, where the code leaves the claim: split and stats were requested
\* without a second output, the pack was split, and GearIt has returned nil.
C14_Diverges ==
    /\ Ended
    /\ Supplied("splitAt") /\ Supplied("stats") /\ ~Supplied("out2")
    /\ \E i \in 1..Len(Gears) : Gears[i].op = "Split"
    /\ ~sp2.nil
    /\ exec.pc = "returned" /\ exec.err = ""

\* the option of every operation
OptionOf ==
    <<"concat", "merge", "lengthen", "removectrl", "removehi", "removehtml",
      "pos", "color", "scale", "shiftBy", "splitAt", "stats">>

\* GearIt went through all its steps: it returned, with nil or with one of
\* the errors of its last check
Completed ==
    /\ exec.pc = "returned"
    /\ exec.err \in {"", OutputMissing, "Second output file must be specified ('-out2')!"}

Ran(op) == \E i \in 1..Len(Gears) : Gears[i].op = op

\* C18 (option presence decides execution): in a GearIt that goes through
\* all its steps, an operation runs if and only if its option was supplied,
\* also when the supplied value is the default value of the option.
C18_PresenceDecides ==
    Completed =>
        \A k \in 1..Len(FixedOrder) : Ran(FixedOrder[k]) <=> Supplied(OptionOf[k])

\* C18, where the code leaves the claim: "-scale 0" was the only option, the
\* primary pack was there, and GearIt has returned nil without scaling.
C18_Diverges ==
    /\ Completed
    /\ ~pre.sp1.nil
    /\ exec.args = <<[name |-> "scale", value |-> "0"]>>
    /\ ~Ran("Scale")
    /\ exec.err = ""

\* the pack lists every one of its subtitles once
ListedOnce(subs) == \A a \in Addrs(subs) : Count(subs, a) = 1

\* C19 (Split cutoff): after sp2 = sp.Split(at), on a pack reached by any
\* sequence of operations, sp keeps exactly the entries whose timeIn was
\* < at, unchanged, and sp2 holds exactly the entries whose timeIn was >= at,
\* each shifted by -at.
C19_SplitCutoff ==
    (After("Split") /\ ListedOnce(pre.sp1.Subs)) =>
        /\ Addrs(sp1.Subs) = {a \in Addrs(pre.sp1.Subs) : pre.heap[a].TimeIn < Last.n}
        /\ Addrs(sp2.Subs) = {a \in Addrs(pre.sp1.Subs) : pre.heap[a].TimeIn >= Last.n}
        /\ \A a \in Addrs(sp1.Subs) : heap[a] = pre.heap[a]
        /\ \A a \in Addrs(sp2.Subs) :
             /\ heap[a].TimeIn = pre.heap[a].TimeIn - Last.n
             /\ heap[a].TimeOut = pre.heap[a].TimeOut - Last.n

\* C19, where the code leaves the claim: the pack was lengthened and then
\* split, and an entry whose timeIn was before the cut time is in sp2 while
\* sp holds no entry that started at or after the cut time.
C19_Diverges ==
    /\ After("Split") /\ ListedOnce(pre.sp1.Subs)
    /\ Len(hist) > 1 /\ hist[Len(hist) - 1].op = "Lengthen"
    /\ \E a \in Addrs(sp2.Subs) : pre.heap[a].TimeIn < Last.n
    /\ \A a \in Addrs(sp1.Subs) : pre.heap[a].TimeIn < Last.n

\* (timeIn + timeOut) / 2
Midpoint(s) == Quot(s.TimeIn + s.TimeOut, 2)

\* the duration the claim gives the entry s after Lengthen(factor)
ClaimedDuration(s, factor) == MulFactor(s.TimeOut - s.TimeIn, factor)

\* the new timeIn of s is made 0 by Lengthen(factor)
Clamped(s, factor) == Midpoint(s) - Quot(ClaimedDuration(s, factor), 2) < 0

\* C20 (Lengthen duration under clamping): after Lengthen(factor) the
\* display duration of every entry (the pack listing it once) is its
\* original duration multiplied by factor and truncated, also when the new
\* timeIn was clamped to 0; when it was not clamped, the interval has the
\* midpoint it had.
C20_LengthenDuration ==
    After("Lengthen") =>
        \A a \in Addrs(sp1.Subs) : Count(sp1.Subs, a) = 1 =>
            /\ heap[a].TimeOut - heap[a].TimeIn = ClaimedDuration(pre.heap[a], Last.f)
            /\ ~Clamped(pre.heap[a], Last.f) => Midpoint(heap[a]) = Midpoint(pre.heap[a])

\* C20, its case: a pack was lengthened by a factor other than 0 and 1; one
\* entry that started after 0 was clamped to 0 and has the multiplied
\* duration, another was not clamped and has a new duration.
C20_Witness ==
    /\ After("Lengthen")
    /\ Last.f[1] # 0 /\ Last.f[1] # Last.f[2]
    /\ \E a \in Addrs(sp1.Subs) :
         /\ Count(sp1.Subs, a) = 1
         /\ pre.heap[a].TimeIn > 0 /\ Clamped(pre.heap[a], Last.f)
         /\ heap[a].TimeIn = 0
         /\ heap[a].TimeOut = ClaimedDuration(pre.heap[a], Last.f)
    /\ \E a \in Addrs(sp1.Subs) :
         /\ Count(sp1.Subs, a) = 1
         /\ ~Clamped(pre.heap[a], Last.f)
         /\ DisplayDuration(heap[a]) # DisplayDuration(pre.heap[a])

\* the color string without its leading '#'
Unsharp(color) == IF Char(color, 1) = "#" THEN From(color, 2) ELSE color

\* RRGGBB with its red and blue bytes swapped: BBGGRR
ClaimedBBGGRR(v) ==
    (v % 256) * 65536 + ((v \div 256) % 256) * 256 + ((v \div 65536) % 256)

\* the names of the table the color string is a letter case of
ClaimedNames(color) ==
    {i \in 1..Len(htmlColorRGB) : ToLower(htmlColorRGB[i][1]) = ToLower(color)}

\* the color of the style key as the claim gives it
ClaimedColor(color) ==
    IF ParseInt(Unsharp(color)).ok
    THEN ClaimedBBGGRR(ParseInt(Unsharp(color)).v)
    ELSE IF ClaimedNames(Unsharp(color)) # {}
    THEN ClaimedBBGGRR(ParseInt(htmlColorRGB[CHOOSE i \in ClaimedNames(Unsharp(color)) : TRUE][2]).v)
    ELSE DefaultColor

\* C16 (Alpha-Station color resolution): for every color string keyFromSub
\* yields the byte-swapped number when the string, after an optional '#',
\* parses as hexadecimal; otherwise the byte-swapped RRGGBB entry of the
\* table name the string is a letter case of, for every name of the table;
\* otherwise the default 0xefefef.
C16_ColorResolution ==
    key.done => key.Color = ClaimedColor(heap[1].Color)

\* C16, where the code leaves the claim: the color is the table name
\* "lightskyBlue", whose entry is 87CEFA, and the key has the default color.
C16_Diverges ==
    /\ key.done
    /\ heap[1].Color = "lightskyBlue"
    /\ htmlColorRGBAt("lightskyBlue") = "87CEFA"
    /\ ClaimedColor(heap[1].Color) = 16436871
    /\ key.Color = DefaultColor

\* the writes of the two codecs on a sink that never fails
FullSrt == WriteSrtToSink(NoFailure, heap, sp1.Subs).log

FullSsa == WriteSsaTo(NoFailure, heap, sp1.Subs).log

\* the writer w of a call whose writes on a good sink are full: the writes
\* issued are the first ones of full, the sink's refusal is the last write
\* issued, and the error returned is the error of that write
FailFast(w, full) ==
    /\ Len(w.log) <= Len(full)
    /\ \A i \in 1..Len(w.log) : w.log[i].a = full[i].a
    /\ \A i \in 1..(Len(w.log) - 1) : w.log[i].ok
    /\ IF wr.failing.at \in 1..Len(full)
       THEN /\ Len(w.log) = wr.failing.at
            /\ ~w.log[Len(w.log)].ok
            /\ w.err = wr.failing.at
       ELSE /\ Len(w.log) = Len(full)
            /\ \A i \in 1..Len(w.log) : w.log[i].ok
            /\ w.err = 0

\* C15 (fail-fast writing): in WriteSrtTo and in WriteSsaTo, once a write to
\* the sink has failed no further write is issued to the sink during the
\* call, and the error returned is the error of that first failed write.
C15_FailFast ==
    /\ wr.srt.called => FailFast(wr.srt, FullSrt)
    /\ wr.ssa.called => FailFast(wr.ssa, FullSsa)

\* C15, its case: a pack of two records or more was written by both codecs
\* to a sink that refuses one write; each call had started on its records,
\* stopped at the refused write with writes left, and returned its error.
C15_Witness ==
    /\ wr.srt.called /\ wr.ssa.called
    /\ Len(sp1.Subs) >= 2
    /\ wr.failing.at > 0 /\ ~wr.failing.stuck
    /\ wr.srt.err = wr.failing.at /\ wr.ssa.err = wr.failing.at
    /\ Len(wr.srt.log) = wr.failing.at /\ Len(wr.srt.log) < Len(FullSrt)
    /\ Len(wr.ssa.log) = wr.failing.at /\ Len(wr.ssa.log) < Len(FullSsa)
    /\ \E i \in 1..(Len(wr.srt.log) - 1) : wr.srt.log[i].a = " --> "
    /\ \E i \in 1..(Len(wr.ssa.log) - 1) : wr.ssa.log[i].a = "Dialogue: Marked=0,"

\* the style key of the entry in slot i of the primary pack
KeyAt(i) == keyFromSub(heap[sp1.Subs[i]])

\* the slots where a key occurs for the first time
FirstAt == {i \in 1..Len(sp1.Subs) : \A j \in 1..(i - 1) : KeyAt(j) # KeyAt(i)}

\* the name the claim gives the style of the entry in slot i: the number of
\* distinct keys met up to the first occurrence of its key
ClaimedName(i) ==
    Cardinality({j \in FirstAt : \E n \in 1..i : KeyAt(n) = KeyAt(i) /\ j <= n
                                                /\ \A m \in 1..(n - 1) : KeyAt(m) # KeyAt(i)})

\* the Style lines written, and the style references of the Dialogue lines
StyleLines == SelectSeq(wr.ssa.log, LAMBDA e : HasAt(e.a, 1, "Style: "))

StyleRefs ==
    SelectSeq(wr.ssa.log,
              LAMBDA e : Len(e.a) > 20
                         /\ HasAt(e.a, 1, ",")
                         /\ HasAt(e.a, Len(e.a) - 19, ",NA,0000,0000,0000,,"))

\* C17 (Alpha-Station style deduplication): WriteSsaTo, on a sink that takes
\* every write, emits exactly one Style line per distinct (alignment, color)
\* key of the pack, named 1, 2, ... in the order of first occurrence, an
\* entry of unspecified position having the alignment of Bottom; and the
\* Dialogue line of each entry references the style named for its key.
C17_StyleDedup ==
    (wr.ssa.called /\ wr.ssa.err = 0) =>
        /\ Len(StyleLines) = Cardinality(FirstAt)
        /\ \A i \in FirstAt :
             StyleLines[ClaimedName(i)].a = StyleLine(ToString(ClaimedName(i)), KeyAt(i))
        /\ \A i \in 1..Len(sp1.Subs) :
             heap[sp1.Subs[i]].Pos = PosNotSpecified => KeyAt(i).Pos = 2
        /\ Len(StyleRefs) = Len(sp1.Subs)
        /\ \A i \in 1..Len(sp1.Subs) :
             StyleRefs[i].a = "," \o ToString(ClaimedName(i)) \o ",NA,0000,0000,0000,,"

\* C17, its case: a pack of three entries was written in full; two entries
\* of unspecified position share style 1, a third has another key and
\* style 2, and two Style lines were written.
C17_Witness ==
    /\ wr.ssa.called /\ wr.ssa.err = 0
    /\ Len(sp1.Subs) = 3
    /\ heap[sp1.Subs[1]].Pos = PosNotSpecified /\ heap[sp1.Subs[2]].Pos = PosNotSpecified
    /\ KeyAt(1) = KeyAt(2) /\ KeyAt(3) # KeyAt(1)
    /\ Len(StyleLines) = 2
    /\ ClaimedName(2) = 1 /\ ClaimedName(3) = 2
    /\ StyleRefs[3].a = ",2,NA,0000,0000,0000,,"

\* every call made before the last one is a call of one of ops
Before(ops) == \A i \in 1..(Len(hist) - 1) : hist[i].op \in ops

\* C27 (RemoveHI never faults): on a pack ReadSrtFrom has produced, after any
\* sequence of RemoveHTML and RemoveControl, pack-level RemoveHI completes
\* without an out-of-range access, also when a line is empty or is made of
\* HTML-like tags only.
C27_RemoveHINeverFaults ==
    (After("RemoveHI") /\ Before({"ReadSrtFrom", "RemoveHTML", "RemoveControl"})) =>
        ~fault

\* C27, where the code leaves the claim: the first thing done with the pack
\* read is RemoveHI; an entry has a first line that the position marker
\* left empty, and the call has ended in the out-of-range panic.
C27_Diverges ==
    /\ After("RemoveHI") /\ Before({"ReadSrtFrom"})
    /\ \E a \in Addrs(pre.sp1.Subs) :
         Len(pre.heap[a].Lines) > 1 /\ pre.heap[a].Lines[1] = ""
    /\ fault

\* every Scale and Lengthen made had a factor > 0
PositiveFactors ==
    \A i \in 1..Len(hist) : hist[i].op \in {"Scale", "Lengthen"} => hist[i].f[1] > 0

\* C25 (sortedness is preserved by the whole pipeline): from a parsed pack
\* on, after any sequence of Shift, Scale and Lengthen with a factor > 0,
\* SetPos, SetColor, RemoveHI, RemoveHTML, RemoveControl, Concatenate, Merge
\* and Split, every pack is ordered by non-decreasing timeIn.
C25_SortednessPreserved ==
    PositiveFactors => (InOrder(heap, sp1.Subs) /\ InOrder(heap, sp2.Subs))

\* C25, where the code leaves the claim: a pack in order was lengthened by a
\* factor > 0 and is out of order.
C25_Diverges ==
    /\ After("Lengthen") /\ Last.f[1] > 0
    /\ InOrder(pre.heap, pre.sp1.Subs)
    /\ ListedOnce(sp1.Subs)
    /\ ~InOrder(heap, sp1.Subs)

\* the fields of the subtitle at address a that are as they were
SameTimes(a) == heap[a].TimeIn = pre.heap[a].TimeIn /\ heap[a].TimeOut = pre.heap[a].TimeOut

SameLines(a) == heap[a].Lines = pre.heap[a].Lines

SamePos(a) == heap[a].Pos = pre.heap[a].Pos

SameColor(a) == heap[a].Color = pre.heap[a].Color

\* what the last call may have changed of the subtitle at address a
Framed(a) ==
    CASE Last.op \in {"Shift", "Scale", "Lengthen"} -> SameLines(a) /\ SamePos(a) /\ SameColor(a)
      [] Last.op = "SetPos" -> SameTimes(a) /\ SameLines(a) /\ SameColor(a)
      [] Last.op = "SetColor" -> SameTimes(a) /\ SameLines(a) /\ SamePos(a)
      [] Last.op = "RemoveHTML" -> SameTimes(a) /\ SamePos(a)
      [] Last.op = "RemoveControl" -> SameTimes(a) /\ SameColor(a)

\* C23 (entries disappear only through RemoveHI): Shift, Scale, Lengthen,
\* SetPos, SetColor, RemoveHTML and RemoveControl leave the entry lists of
\* the packs as they were and change only the fields they name; after
\* Concatenate and Merge the pack lists every entry the two packs listed,
\* and after Split every entry of the pack is in one of the two packs.
C23_OnlyRemoveHIDrops ==
    /\ (hist # <<>> /\ Last.op \in {"Shift", "Scale", "Lengthen", "SetPos", "SetColor",
                                    "RemoveHTML", "RemoveControl"}) =>
            /\ sp1 = pre.sp1 /\ sp2 = pre.sp2
            /\ Len(heap) = Len(pre.heap)
            /\ \A a \in 1..Len(heap) : Framed(a)
            /\ \A a \in 1..Len(heap) : a \notin Addrs(sp1.Subs) => heap[a] = pre.heap[a]
    /\ (hist # <<>> /\ Last.op \in {"Concatenate", "Merge"}) =>
            /\ Addrs(pre.sp1.Subs) \cup Addrs(pre.sp2.Subs) \subseteq Addrs(sp1.Subs)
            /\ sp2 = pre.sp2
    /\ After("Split") => Addrs(pre.sp1.Subs) = Addrs(sp1.Subs) \cup Addrs(sp2.Subs)

\* C23, its case: RemoveHTML was applied to a pack of several entries; an
\* entry with a position lost its color and the tags of a line, and kept
\* its position, its timestamps and its place in the pack.
C23_Witness ==
    /\ After("RemoveHTML")
    /\ Len(sp1.Subs) > 1 /\ sp1 = pre.sp1
    /\ \E a \in Addrs(sp1.Subs) :
         /\ pre.heap[a].Color # "" /\ heap[a].Color = ""
         /\ heap[a].Lines # pre.heap[a].Lines
         /\ heap[a].Pos # PosNotSpecified /\ SamePos(a) /\ SameTimes(a)

\* the packs and their subtitles are as they were before GearIt
SamePacks == heap = pre.heap /\ sp1 = pre.sp1 /\ sp2 = pre.sp2

\* C24 (Modified tracking): after GearIt returns, Modified is true if and
\* only if an operation that mutates a pack ran during the call (Stats is
\* one: it removes formatting), and Modified = false implies that Sp1 and
\* Sp2 hold the content they had before the call.
C24_ModifiedTracking ==
    exec.pc = "returned" =>
        /\ exec.e.Modified <=> Gears # <<>>
        /\ ~exec.e.Modified => SamePacks

\* C24, where the code leaves the claim: "-stats" was the only option,
\* GearIt has returned nil, the subtitles of the primary pack have lost
\* their formatting and Modified is false.
C24_Diverges ==
    /\ exec.pc = "returned" /\ exec.err = ""
    /\ exec.args = <<[name |-> "stats", value |-> "true"]>>
    /\ Gears = <<Call("Stats", 0, NoFactor, "")>>
    /\ ~exec.e.Modified
    /\ \E a \in Addrs(sp1.Subs) : heap[a] # pre.heap[a]

\* GearIt has returned an error
Failed == exec.pc = "returned" /\ exec.err # ""

\* C29 as the specification states it: whenever GearIt returns an error, the
\* packs Sp1 and Sp2 hold the entries and the field values they had before
\* the call.
C29_ErrorsLeaveUntouched == Failed => SamePacks

\* C29 (errors stop the invocation where they are found): whenever GearIt
\* returns an error, no operation that follows the failed check in the
\* fixed order has been applied.  The packs are as they were before the
\* call when a pack is missing or the concat time is invalid; after an
\* invalid pos token only operations that precede set-position have been
\* applied, after an invalid splitAt time only operations that precede
\* split; a missing Out or Out2 is reported after operations were applied.
C29_ErrorsStopTheRun ==
    Failed =>
        /\ (\/ exec.err = "Input file must be specified ('-in')!"
            \/ exec.err = "2nd input file must be specified ('-in2')!"
            \/ HasAt(exec.err, 1, "Invalid time for concat: ")) => (Untouched /\ SamePacks)
        /\ HasAt(exec.err, 1, "Invalid pos value: ") =>
               \A i \in 1..Len(Gears) : Rank(Gears[i].op) < Rank("SetPos")
        /\ HasAt(exec.err, 1, "Invalid time for splitAt: ") =>
               \A i \in 1..Len(Gears) : Rank(Gears[i].op) < Rank("Split")
        /\ HasAt(exec.err, 1, "Output file must be specified")
           \/ HasAt(exec.err, 1, "Second output file must be specified") =>
               (Mutated /\ exec.e.Modified /\ ~Ran("Stats"))
        /\ Gears = <<>> => SamePacks

\* C29, its case: the removal of HTML and an invalid position were
\* requested; GearIt has returned the error of the position, the HTML
\* formatting is removed, and nothing after set-position was applied.
C29_Witness ==
    /\ Failed
    /\ HasAt(exec.err, 1, "Invalid pos value: ")
    /\ Supplied("removehtml") /\ Supplied("pos") /\ Supplied("shiftBy")
    /\ Ran("RemoveHTML") /\ ~Ran("SetPos") /\ ~Ran("Shift")
    /\ \E a \in Addrs(sp1.Subs) : heap[a].Lines # pre.heap[a].Lines

\* the time the calls of GearIt that move in-cues add to the in-cue of the
\* subtitle at address a when each call reaches it once: Concatenate moves
\* the subtitles of the secondary pack, Shift every subtitle of the pack
ShiftOf(a) ==
    LET moves == {i \in 1..Len(Gears) :
                     \/ Gears[i].op = "Shift"
                     \/ Gears[i].op = "Concatenate" /\ a \in Addrs(pre.sp2.Subs)}
        Sum[n \in 0..Len(Gears)] ==
            IF n = 0 THEN 0
            ELSE Sum[n - 1] + (IF n \in moves THEN Gears[n].n ELSE 0)
    IN  Sum[Len(Gears)]

\* C26 (no entry listed twice): after GearIt has returned, Sp1 lists each
\* subtitle at most once, and when only Concatenate, Merge and Shift ran
\* every in-cue has moved by exactly what these calls add when they reach it
\* once.
C26_NoEntryTwice ==
    exec.pc = "returned" =>
        /\ \A a \in Addrs(sp1.Subs) : Count(sp1.Subs, a) = 1
        /\ (\A i \in 1..Len(Gears) : Gears[i].op \in {"Concatenate", "Merge", "Shift"}) =>
               \A a \in Addrs(sp1.Subs) : heap[a].TimeIn = pre.heap[a].TimeIn + ShiftOf(a)

\* C26, where the code leaves the claim: "-concat 00:00:00,003 -merge
\* -shiftBy 2" with the same secondary pack; Concatenate and Merge have both
\* appended its subtitle, Sp1 lists it twice and Shift has moved it by 4 ms
\* instead of 2 ms.
C26_Diverges ==
    /\ exec.pc = "returned"
    /\ Ran("Concatenate") /\ Ran("Merge") /\ Ran("Shift")
    /\ \E a \in Addrs(pre.sp2.Subs) :
         /\ Count(sp1.Subs, a) = 2
         /\ heap[a].TimeIn = pre.heap[a].TimeIn + 3 * Millisecond + 2 * (2 * Millisecond)

\* the slots of the pack, before the call, whose subtitle satisfies P
Slots(P(_)) == {i \in 1..Len(pre.sp1.Subs) : P(pre.heap[pre.sp1.Subs[i]])}

\* RemoveControl changes something of s: a position, or a control block at
\* the start of a line
HasControl(s) ==
    \/ s.Pos # PosNotSpecified
    \/ \E i \in 1..Len(s.Lines) : controlPatternRemove(s.Lines[i]) # s.Lines[i]

\* RemoveHTML changes something of s once its controls are removed: a
\* color, or a tag in a line
HasHTML(s) ==
    \/ s.Color # ""
    \/ \E i \in 1..Len(s.Lines) :
         htmlPatternRemove(controlPatternRemove(s.Lines[i]), 1) # controlPatternRemove(s.Lines[i])

\* a line of s is a hearing impaired line once controls and tags are removed
HasHI(s) ==
    \E i \in 1..Len(s.Lines) :
        HIKind(htmlPatternRemove(controlPatternRemove(s.Lines[i]), 1)) = "hi"

StatsCall == Call("Stats", 0, NoFactor, "")

\* C22 (Stats is destructive but keeps the entries): when GearIt has
\* returned and Stats ran, which is its last step, every entry of the pack
\* has pos = unspecified, an empty color and no hearing impaired line; when
\* Stats was the only operation, the pack lists the entries it listed, in
\* the same order, entries without lines included, the Subs count is the
\* length of the pack and Controls, HTMLs and HIs count the entries of which
\* the respective removal changed something.
C22_StatsDestructive ==
    (exec.pc = "returned" /\ Ran("Stats")) =>
        /\ \A a \in Addrs(sp1.Subs) :
              /\ heap[a].Pos = PosNotSpecified /\ heap[a].Color = ""
              /\ \A i \in 1..Len(heap[a].Lines) :
                    HIKind(htmlPatternRemove(heap[a].Lines[i], 1)) = "keep"
        /\ Gears = <<StatsCall>> =>
              /\ sp1 = pre.sp1 /\ sp2 = pre.sp2 /\ Len(heap) = Len(pre.heap)
              /\ \E r \in {Stats(pre.heap, pre.sp1.Subs)} :
                    /\ r.h = heap
                    /\ r.ss.Subs = Len(sp1.Subs)
                    /\ r.ss.Controls = Cardinality(Slots(HasControl))
                    /\ r.ss.HTMLs = Cardinality(Slots(HasHTML))
                    /\ r.ss.HIs = Cardinality(Slots(HasHI))

\* C22: Stats was the only operation of a GearIt that returned nil; an entry
\* that had a position, a color and a hearing impaired line is listed where
\* it was, and an entry that has lost all its lines is still in the pack.
C22_Witness ==
    /\ exec.pc = "returned" /\ exec.err = "" /\ Gears = <<StatsCall>>
    /\ \E a \in Addrs(sp1.Subs) :
         /\ pre.heap[a].Pos # PosNotSpecified /\ pre.heap[a].Color # ""
         /\ Len(heap[a].Lines) < Len(pre.heap[a].Lines)
    /\ \E a \in Addrs(sp1.Subs) : pre.heap[a].Lines # <<>> /\ heap[a].Lines = <<>>

\* C28 (color resolution terminates): for every color string, the loop of
\* keyFromSub ends after at least one and at most three iterations, and the
\* key holds a color of three bytes.
C28_ColorTerminates ==
    key.done => (key.Iters \in 1..3 /\ key.Color \in 0..(Bytes3 - 1))

\* C28: the loop has ended for a name prefixed with '#': the first iteration
\* drops the '#' and finds the name in the table, the second one parses the
\* hexadecimal form.
C28_Witness ==
    /\ key.done /\ heap[1].Color = "#red"
    /\ key.Iters = 2 /\ key.Color = 255

\* the first index from i on of a line that is not blank, of a line that
\* is blank; the index after the last line when there is none
NonBlankFrom(lines, i) ==
    IF \E j \in i..Len(lines) : lines[j] # ""
    THEN CHOOSE j \in i..Len(lines) :
             lines[j] # "" /\ \A k \in i..(j - 1) : lines[k] = ""
    ELSE Len(lines) + 1

BlankFrom(lines, i) ==
    IF \E j \in i..Len(lines) : lines[j] = ""
    THEN CHOOSE j \in i..Len(lines) :
             lines[j] = "" /\ \A k \in i..(j - 1) : lines[k] # ""
    ELSE Len(lines) + 1

\* the indices of the lines where a record starts: the first line that is
\* not blank, and then the first such line after the blank line that ends
\* the text of the record before (the text starts two lines after the
\* start of the record)
RECURSIVE RecordStarts(_, _)
StartsAt(lines, s) ==
    IF s > Len(lines) THEN <<>>
    ELSE <<s>> \o RecordStarts(lines, BlankFrom(lines, s + 2) + 1)

RecordStarts(lines, i) == StartsAt(lines, NonBlankFrom(lines, i))

\* the timestamps the lines of LineKinds give, <<0, 0>> for a line the
\* pattern does not match
ClaimedTimes(line) ==
    CASE line = "00:00:00,002 --> 00:00:00,004" ->
             <<2 * Millisecond, 4 * Millisecond>>
      [] line = "dY 00:02:20.476--->   00:02:22,501X Y" ->
             <<2 * Minute + 20 * Second + 476 * Millisecond,
               2 * Minute + 22 * Second + 501 * Millisecond>>
      [] OTHER -> <<0, 0>>

\* the record that starts at line s: the next line gives the timestamps,
\* the lines after it up to the next blank line are the text, in which
\* addSub then finds the position and the color
SegmentOf(lines, s, times) ==
    addSub([NewSubtitle EXCEPT
              !.TimeIn = times[1], !.TimeOut = times[2],
              !.Lines = SubSeq(lines, s + 2, BlankFrom(lines, s + 2) - 1)])

SegmentAt(lines, s) ==
    SegmentOf(lines, s, ClaimedTimes(IF s < Len(lines) THEN lines[s + 1] ELSE ""))

Segmented(lines, starts) ==
    /\ Len(heap) = Len(starts)
    /\ \A k \in 1..Len(starts) : heap[k] = SegmentAt(lines, starts[k])
    /\ Len(sp1.Subs) = Len(heap) /\ Addrs(sp1.Subs) = 1..Len(heap)

SegmentedLines(lines) == Segmented(lines, RecordStarts(lines, 1))

\* the lines of a file as they are stored: the bytes before each \n, and
\* the bytes after the last \n when there are some
RECURSIVE FileLines(_, _)
FileLine(text, i, nl) ==
    IF nl > 0 THEN <<SubSeq(text, i, nl - 1)>> \o FileLines(text, nl + 1)
    ELSE <<From(text, i)>>

FileLines(text, i) ==
    IF i > Len(text) THEN <<>>
    ELSE FileLine(text, i, IndexIn(text, "\n", i, Len(text)))

\* the line, with the \r at its end, is shorter than the buffer
Fits(line) == Len(line) < MaxScanTokenSize

\* the lines before the first one that does not fit
Fitting(lines) ==
    SubSeq(lines, 1, Cardinality({i \in 1..Len(lines) :
                                    \A k \in 1..i : Fits(lines[k])}))

\* the lines without the \r at their end
WithoutCR(lines) == [i \in 1..Len(lines) |-> dropCR(lines[i])]

\* the lines, the first one without the byte order mark at its head
Unmarked(lines) ==
    [i \in 1..Len(lines) |->
        IF i = 1 /\ HasPrefix(lines[i], BOM)
        THEN From(lines[i], Len(BOM) + 1) ELSE lines[i]]

SegmentedUpTo(lines) ==
    /\ (err = "") = (Fitting(lines) = lines)
    /\ SegmentedLines(Unmarked(WithoutCR(Fitting(lines))))

\* C21 (parser record segmentation, as the code has it): ReadSrtFrom returns
\* a pack for every file, and it returns an error exactly when a line of the
\* file, with the \r at its end, does not fit the buffer of the scanner
\* (64 KiB and more).  The pack has exactly one entry per record started in
\* the lines before that line (in all the lines, without an error), the
\* first line taken without a byte order mark at its head: a record starts
\* at each line that is not blank and is read while a sequence number is
\* expected, the next line is consumed as the timestamp line (timeIn =
\* timeOut = 0 when it does not match), the lines after it up to the next
\* blank line are the text, and a record in progress where the reading ends
\* is an entry too.
C21_RecordSegmentation ==
    After("ReadSrtFrom") =>
        (~fault /\ ~sp1.nil /\ SegmentedUpTo(FileLines(Last.c, 1)))

\* C21 as it is claimed: ReadSrtFrom never fails, and the pack has one entry
\* per record started in the lines of the file.
C21_NeverFails ==
    After("ReadSrtFrom") =>
        (~fault /\ err = "" /\ ~sp1.nil
         /\ SegmentedLines(WithoutCR(FileLines(Last.c, 1))))

\* C21: a file without an end of line at its end, whose first record has a
\* timestamp line that does not match and whose second record, started by a
\* timestamp line where the number is expected, is still in progress at the
\* end of the input: two entries, the first with timeIn = timeOut = 0.
C21_Witness ==
    /\ After("ReadSrtFrom")
    /\ Last.c = "1\n00:00:01,000 --> 00:00:02\n\n00:00:00,002 --> 00:00:00,004"
    /\ Len(heap) = 2
    /\ heap[1].TimeIn = 0 /\ heap[1].TimeOut = 0 /\ heap[1].Lines = <<>>
    /\ heap[2].TimeIn = 0 /\ heap[2].Lines = <<>>

\* the nine positions other than PosNotSpecified
Specified == PosInputs \ {PosNotSpecified}

\* the pack has the precondition of the round trip as it is claimed: it is
\* sorted by in-cue, its timestamps are not negative and whole milliseconds,
\* and every entry has a line that is not empty (the lines of the model
\* carry no tag and no control block)
Claimed(h, subs) ==
    /\ InOrder(h, subs)
    /\ \A i \in 1..Len(subs) :
         /\ h[subs[i]].TimeIn >= 0 /\ h[subs[i]].TimeIn % Millisecond = 0
         /\ h[subs[i]].TimeOut >= 0 /\ h[subs[i]].TimeOut % Millisecond = 0
         /\ \E k \in 1..Len(h[subs[i]].Lines) : h[subs[i]].Lines[k] # ""

\* the precondition the code needs: moreover the timestamps are below 100
\* hours, the range of the two hour digits, and no line is empty
Writable(h, subs) ==
    /\ Claimed(h, subs)
    /\ \A i \in 1..Len(subs) :
         /\ Quot(h[subs[i]].TimeIn, Hour) < 100
         /\ Quot(h[subs[i]].TimeOut, Hour) < 100
         /\ \A k \in 1..Len(h[subs[i]].Lines) : h[subs[i]].Lines[k] # ""

\* every line of the file, with the \r at its end, fits the buffer of the
\* scanner
AllFit(lines) == \A i \in 1..Len(lines) : Fits(lines[i])

\* the pack read has as many entries as the pack written, with the same
\* field values
ReadAsWritten ==
    /\ Len(sp2.Subs) = Len(sp1.Subs)
    /\ \A i \in 1..Len(sp1.Subs) : heap[sp2.Subs[i]] = heap[sp1.Subs[i]]

\* the position-to-digit table and the digit-to-position table are inverse
\* on the nine specified positions
TablesInverse ==
    /\ \A p \in Specified : srtPosToModelPos(modelPosToSrtPos(p)) = p
    /\ \A c \in {"1", "2", "3", "4", "5", "6", "7", "8", "9"} :
          srtPosToModelPos(c) \in Specified /\ modelPosToSrtPos(srtPosToModelPos(c)) = c

=============================================================================
